---------------------------- MODULE Spec2Model ----------------------------
(***************************************************************************)
(* A model of Plandomizer.py (OoT-Randomizer): the pattern matcher, the    *)
(* Record classes and their document form, item-pool alteration, entrance  *)
(* overrides, location fill, starting items and Distribution.reset.        *)
(*                                                                         *)
(* Python values are modelled as records with one field naming the type:   *)
(* [none |-> TRUE], [str |-> "x"], [int |-> 1], [bool |-> TRUE],            *)
(* [list |-> <<...>>], [dict |-> [k \in Keys |-> value]].  Strings are TLA+ *)
(* strings; Len, SubSeq and \o act on them character by character.         *)
(***************************************************************************)
EXTENDS Integers, Sequences, FiniteSets, TLC

VARIABLES
    \* ---- the WorldDistribution and Settings state several operations share ----
    major_group,     \* WorldDistribution.major_group (memoized #MajorItem group)
    base_pool,       \* WorldDistribution.base_pool
    settings,        \* the Settings object (the fields the modelled code reads)
    \* ---- pattern_matcher ----
    pm_pattern,      \* the pattern handed to pattern_matcher (str or list)
    pm_name,         \* the name the compiled matcher is applied to
    pm_result,       \* what the call produced: unset, a KeyError, or a boolean
    pm_branch,       \* the branch each caller of is_pattern takes for the name
    \* ---- Record classes ----
    rec,             \* a Record: its class and its fields
    rec_json,        \* rec.to_json(): unset, a raised error, or the document value
    rec_back,        \* the Record constructed from rec_json
    \* ---- Distribution ----
    src_dict,        \* Distribution.src_dict: the raw override document
    world_dists,     \* Distribution.world_dists: per world, section -> Records
    first_reset,     \* what the constructor's reset() produced, and the starting item names it was given
    last_op,         \* the last operation applied to the Distribution
    mutations,       \* how many in-place changes fill and alter_pool have made
    si_world,        \* the world whose starting_items property was read
    si_result,       \* what the starting_items property returned
    \* ---- alter_pool ----
    pool,            \* the pool list alter_pool was handed (item names)
    item_pool,       \* WorldDistribution.item_pool: name -> ItemPoolRecord
    item_pool_keys,  \* the keys of item_pool in insertion (iteration) order
    pool_size,       \* alter_pool's pool_size
    bottles,         \* alter_pool's bottles counter
    remove_trade,    \* alter_pool's remove_trade list
    ap_pc,           \* where alter_pool stands
    ap_index,        \* the position of the running loop in item_pool_keys
    ap_todo,         \* the starting items the last loop has not visited yet
    ap_error,        \* the exception alter_pool raised ("" while none)
    ap_entry,        \* the pool and item_pool when alter_pool was entered
    effective_starting_items, \* WorldDistribution.effective_starting_items (unset until configured)
    ap_applied,      \* the records applied so far, in order: <<type, name>>
    song_as_items,   \* WorldDistribution.song_as_items
    \* ---- set_shuffled_entrances ----
    entrances,       \* WorldDistribution.entrances: name -> EntranceRecord
    entrance_keys,   \* the keys of entrances in iteration order
    connected_region,\* of every entrance and target: the region it leads to, or "None"
    replaces,        \* of every entrance: the target it replaces, or "None"
    consumed,        \* the targets confirm_replacement has deleted
    es_pc,           \* where set_shuffled_entrances stands
    es_index,        \* the position of the record loop in entrance_keys
    es_pool,         \* the position of the inner loop in the entrance pools
    entrance_found,  \* entrance_found of the running record
    es_error,        \* the RuntimeError raised ("" while none)
    es_attempt,      \* the last attempted pair and the connections right before it
    es_calls,        \* the calls made to EntranceShuffle, in order
    \* ---- fill ----
    locations,       \* WorldDistribution.locations: name -> LocationRecord
    fl_order,        \* the location names in the order random.sample gave them
    fl_index,        \* the position of fill's loop in fl_order
    location_pools,  \* the location pools: lists of locations
    item_pools,      \* the item pools: lists of items
    used_items,      \* fill's used_items
    placed,          \* the items pushed to locations, in order
    fl_pc,           \* where fill stands
    fl_error,        \* the exception fill raised ("" while none)
    fl_gate,         \* the last reachability check: what was placed, and the answer
    fillable_locations, \* fill's fillable_locations: the locations of the pools at entry
    world_itempool   \* world.itempool: the items of the filling world

wdVars == <<major_group, base_pool, settings>>
pmVars == <<pm_pattern, pm_name, pm_result, pm_branch>>
recVars == <<rec, rec_json, rec_back>>
distVars == <<src_dict, world_dists, first_reset, last_op, mutations, si_world, si_result>>
poolVars == <<pool, item_pool, item_pool_keys, pool_size, bottles, remove_trade, ap_pc,
              ap_index, ap_todo, ap_error, ap_entry, effective_starting_items, ap_applied, song_as_items>>

entVars == <<entrances, entrance_keys, connected_region, replaces, consumed, es_pc, es_index,
             es_pool, entrance_found, es_error, es_attempt, es_calls>>

fillVars == <<locations, fl_order, fl_index, location_pools, item_pools, used_items, placed,
              fl_pc, fl_error, fl_gate, fillable_locations, world_itempool>>

vars == <<wdVars, pmVars, recVars, distVars, poolVars, entVars, fillVars>>

(***************************************************************************)
(* Bounds of the model.                                                    *)
(***************************************************************************)
MaxPatLen == 3      \* longest enumerated pattern, in characters
MaxNameLen == 2     \* longest enumerated name, in characters

(***************************************************************************)
(* Python values.                                                          *)
(***************************************************************************)
PyNone == [none |-> TRUE]
PyStr(s) == [str |-> s]
PyInt(n) == [int |-> n]
PyBool(b) == [bool |-> b]
PyList(l) == [list |-> l]
IsNone(v) == "none" \in DOMAIN v
IsStr(v) == "str" \in DOMAIN v
IsInt(v) == "int" \in DOMAIN v
IsBool(v) == "bool" \in DOMAIN v
IsList(v) == "list" \in DOMAIN v
IsDict(v) == "dict" \in DOMAIN v

PyDict(d) == [dict |-> d]

\* A variable not yet assigned, and a raised exception.
Unset == [unset |-> TRUE]
Raised(e) == [raised |-> e]
IsRaised(v) == "raised" \in DOMAIN v

\* The state of the parts of the program a specification leaves alone.
WdIdle == major_group = Unset /\ base_pool = Unset /\ settings = Unset
PmIdle ==
    pm_pattern = Unset /\ pm_name = Unset /\ pm_result = Unset /\ pm_branch = Unset
RecIdle == rec = Unset /\ rec_json = Unset /\ rec_back = Unset
DistIdle ==
    /\ src_dict = Unset /\ world_dists = Unset /\ first_reset = Unset /\ last_op = Unset
    /\ mutations = Unset /\ si_world = Unset /\ si_result = Unset

PoolIdle ==
    /\ pool = Unset /\ item_pool = Unset /\ item_pool_keys = Unset /\ pool_size = Unset
    /\ bottles = Unset /\ remove_trade = Unset /\ ap_pc = Unset /\ ap_index = Unset
    /\ ap_todo = Unset /\ ap_error = Unset /\ ap_entry = Unset /\ effective_starting_items = Unset /\ ap_applied = Unset
    /\ song_as_items = Unset

EntIdle ==
    /\ entrances = Unset /\ entrance_keys = Unset /\ connected_region = Unset
    /\ replaces = Unset /\ consumed = Unset /\ es_pc = Unset /\ es_index = Unset
    /\ es_pool = Unset /\ entrance_found = Unset /\ es_error = Unset
    /\ es_attempt = Unset /\ es_calls = Unset

FillIdle ==
    /\ locations = Unset /\ fl_order = Unset /\ fl_index = Unset /\ location_pools = Unset
    /\ item_pools = Unset /\ used_items = Unset /\ placed = Unset /\ fl_pc = Unset
    /\ fl_error = Unset /\ fl_gate = Unset /\ fillable_locations = Unset
    /\ world_itempool = Unset

Range(f) == {f[i] : i \in DOMAIN f}

(***************************************************************************)
(* str.startswith, str.endswith, `x in s`, s[1:], s[:-1].                  *)
(***************************************************************************)
startswith(s, p) == Len(s) >= Len(p) /\ SubSeq(s, 1, Len(p)) = p
endswith(s, p) == Len(s) >= Len(p) /\ SubSeq(s, Len(s) - Len(p) + 1, Len(s)) = p
contains(s, p) == \E i \in 1..(Len(s) - Len(p) + 1) : SubSeq(s, i, i + Len(p) - 1) = p
dropfirst(s) == SubSeq(s, 2, Len(s))
droplast(s) == SubSeq(s, 1, Len(s) - 1)

(***************************************************************************)
(* The name tables the module imports (ItemPool.item_groups, song_list),   *)
(* cut to a few names of each group, and a user-defined custom group.      *)
(***************************************************************************)
item_groups ==
    [Bottle        |-> <<"Bottle", "Bottle with Milk">>,
     AdultTrade    |-> <<"Pocket Egg", "Pocket Cucco", "Cojiro">>,
     ChildTrade    |-> <<"Weird Egg", "Chicken", "Zeldas Letter">>,
     Junk          |-> <<"Recovery Heart", "Rupees (5)">>,
     JunkSong      |-> <<"Rupees (5)">>,
     Song          |-> <<"Zeldas Lullaby">>,
     DungeonReward |-> <<"Kokiri Emerald">>,
     MajorItem     |-> <<"Kokiri Sword", "Bow", "Zeldas Lullaby", "Bottle">>]

custom_groups == [a |-> <<"ab", "b">>]

\* Distribution.search_groups: the built-in groups, updated with custom_groups.
search_groups ==
    [g \in DOMAIN item_groups \cup DOMAIN custom_groups |->
        IF g \in DOMAIN custom_groups THEN custom_groups[g] ELSE item_groups[g]]

InList(x, l) == \E i \in DOMAIN l : l[i] = x

\* [x for x in l if (x in m) == keep]
FilterIn(l, m, keep) ==
    LET F[i \in 0..Len(l)] ==
            IF i = 0 THEN <<>>
            ELSE IF InList(l[i], m) = keep THEN Append(F[i - 1], l[i]) ELSE F[i - 1]
    IN  F[Len(l)]

(***************************************************************************)
(* The #MajorItem group as pattern_matcher computes it on first use: the   *)
(* group's names that are in base_pool, without the songs unless songs are *)
(* shuffled anywhere, with Triforce Piece under triforce hunt and the      *)
(* heart items when hearts open the bridge.                                *)
(***************************************************************************)
ComputeMajorGroup(base, st) ==
    LET g1 == FilterIn(search_groups["MajorItem"], base, TRUE)
        g2 == IF st.shuffle_song_items # "any"
              THEN FilterIn(g1, item_groups["Song"], FALSE)
              ELSE g1
        g3 == IF st.triforce_hunt THEN Append(g2, "Triforce Piece") ELSE g2
    IN  IF st.bridge = "hearts"
        THEN g3 \o <<"Heart Container", "Piece of Heart">>
        ELSE g3

\* self.major_group after pattern_matcher(pattern) ran: computed only when the
\* pattern is #MajorItem (after a leading !) and the memo is still empty.
MajorGroupAfter(p, major, base, st) ==
    LET q == IF startswith(p, "!") THEN dropfirst(p) ELSE p
    IN  IF q = "#MajorItem" /\ major = <<>> THEN ComputeMajorGroup(base, st) ELSE major

\* pattern_matcher raises KeyError when a # pattern names no search group.
StrPatternCompiles(p) ==
    LET q == IF startswith(p, "!") THEN dropfirst(p) ELSE p
    IN  startswith(q, "#") => dropfirst(q) \in DOMAIN search_groups

\* The group test of a # pattern (after "!" was taken off): membership in the
\* search group, or in the memoized major group for #MajorItem.
GroupMatch(q, major, s) ==
    LET group == IF q = "#MajorItem" THEN major ELSE search_groups[dropfirst(q)]
    IN  InList(s, group)

WildcardMatchSwapped(q, s) ==
    LET wildcard_begin == startswith(q, "*")
        q1 == IF wildcard_begin THEN dropfirst(q) ELSE q
        wildcard_end == endswith(q1, "*")
        q2 == IF wildcard_end THEN droplast(q1) ELSE q1
    IN  IF wildcard_end
        THEN IF wildcard_begin THEN contains(s, q2) ELSE endswith(s, q2)
        ELSE IF wildcard_begin THEN startswith(s, q2) ELSE s = q2

\* The wildcard test (after "!" was taken off, for a pattern that is no group).
WildcardMatch(q, s) ==
    LET wildcard_begin == startswith(q, "*")
        q1 == IF wildcard_begin THEN dropfirst(q) ELSE q
        wildcard_end == endswith(q1, "*")
        q2 == IF wildcard_end THEN droplast(q1) ELSE q1
    IN  IF wildcard_end
        THEN IF wildcard_begin THEN contains(s, q2) ELSE startswith(s, q2)
        ELSE IF wildcard_begin THEN endswith(s, q2) ELSE s = q2

StrPatternMatchNoInvert(p, major, s) ==
    LET invert == startswith(p, "!")
        q == IF invert THEN dropfirst(p) ELSE p
    IN  IF startswith(q, "#")
        THEN GroupMatch(q, major, s)
        ELSE invert # WildcardMatch(q, s)

\* pattern_matcher(pattern)(s) for a string pattern; major is self.major_group
\* as pattern_matcher left it.
StrPatternMatch(p, major, s) ==
    LET invert == startswith(p, "!")
        q == IF invert THEN dropfirst(p) ELSE p
    IN  IF startswith(q, "#")
        THEN invert # GroupMatch(q, major, s)
        ELSE invert # WildcardMatch(q, s)

\* pattern_matcher(pattern) for a string or a list of strings: whether it
\* compiles, the memo it leaves, and the compiled matcher applied to s.
PatternCompiles(pattern) ==
    IF IsList(pattern)
    THEN \A i \in DOMAIN pattern.list : StrPatternCompiles(pattern.list[i])
    ELSE StrPatternCompiles(pattern.str)

PatternMajorAfter(pattern, major, base, st) ==
    IF IsList(pattern)
    THEN LET F[i \in 0..Len(pattern.list)] ==
                 IF i = 0 THEN major
                 ELSE MajorGroupAfter(pattern.list[i], F[i - 1], base, st)
         IN  F[Len(pattern.list)]
    ELSE MajorGroupAfter(pattern.str, major, base, st)

\* The reduce over the sub-matchers with every step a conjunction.
ReduceMatchersAll(patterns, major, s) ==
    LET acc[i \in 0..Len(patterns)] ==
            IF i = 0 THEN TRUE
            ELSE StrPatternMatch(patterns[i], major, s) /\ acc[i - 1]
    IN  acc[Len(patterns)]

\* reduce(lambda acc, sub_matcher: lambda item: sub_matcher(item) or acc(item),
\*        pattern_list, lambda _: False) applied to s.
ReduceMatchers(patterns, major, s) ==
    LET acc[i \in 0..Len(patterns)] ==
            IF i = 0 THEN FALSE
            ELSE StrPatternMatch(patterns[i], major, s) \/ acc[i - 1]
    IN  acc[Len(patterns)]

pattern_matcher(pattern, major, s) ==
    IF IsList(pattern)
    THEN ReduceMatchers(pattern.list, major, s)
    ELSE StrPatternMatch(pattern.str, major, s)

\* is_pattern without its test of the last character.
IsPatternLeadingOnly(p) ==
    startswith(p, "!") \/ startswith(p, "*") \/ startswith(p, "#")

\* is_pattern
is_pattern(p) ==
    startswith(p, "!") \/ startswith(p, "*") \/ startswith(p, "#") \/ endswith(p, "*")

(***************************************************************************)
(* The pattern specification: a pattern and a name are drawn, and          *)
(* pattern_matcher is compiled and applied.                                *)
(***************************************************************************)
Alphabet == {"a", "b", "*", "!", "#"}
NameAlphabet == {"a", "b"}

RECURSIVE Strs(_, _)
Strs(alpha, n) ==
    IF n = 0 THEN {""}
    ELSE LET shorter == Strs(alpha, n - 1)
         IN  shorter \cup {s \o c : s \in shorter, c \in alpha}

GroupPatterns == {"#MajorItem", "!#MajorItem", "#Bottle", "!#Bottle", "#Nope"}
ItemPatterns == {"Bottle*", "*Sword", "!Bow", "*Milk*", "Bow"}
PatternStrings == Strs(Alphabet, MaxPatLen) \cup GroupPatterns \cup ItemPatterns
PatternNames ==
    Strs(NameAlphabet, MaxNameLen) \cup
    {"Bottle", "Bottle with Milk", "Kokiri Sword", "Bow", "Zeldas Lullaby", "Triforce Piece"}

PatternSettings ==
    [shuffle_song_items : {"song", "any"}, triforce_hunt : BOOLEAN, bridge : {"open"}]

\* The list patterns: every list of at most MaxListLen of these elements.
MaxListLen == 2
ListElements ==
    {"a", "!a", "*b", "#Bottle", "!#Bottle", "#MajorItem", "Bow", "!Bow", "#Nope"}
PatternLists ==
    UNION {[1..n -> ListElements] : n \in 0..MaxListLen}

PatternInit ==
    /\ pm_pattern \in {PyStr(p) : p \in PatternStrings} \cup {PyList(l) : l \in PatternLists}
    /\ pm_name \in PatternNames
    /\ pm_result = Unset
    /\ pm_branch = Unset
    /\ major_group = <<>>
    /\ base_pool \in {<<>>, <<"Kokiri Sword", "Zeldas Lullaby">>}
    /\ settings \in PatternSettings
    /\ RecIdle /\ DistIdle /\ PoolIdle /\ EntIdle /\ FillIdle

\* matcher = self.pattern_matcher(pattern); result = matcher(name)
CompileAndMatch ==
    /\ pm_result = Unset
    /\ IF PatternCompiles(pm_pattern)
       THEN LET major == PatternMajorAfter(pm_pattern, major_group, base_pool, settings)
            IN  /\ major_group' = major
                /\ pm_result' = PyBool(pattern_matcher(pm_pattern, major, pm_name))
       ELSE /\ pm_result' = Raised("KeyError")
            /\ UNCHANGED major_group
    /\ UNCHANGED <<pm_pattern, pm_name, pm_branch, base_pool, settings, recVars, distVars,
                   poolVars, entVars, fillVars>>

\* The branch pull_item_or_location takes for a name: pull_random_element
\* with the compiled matcher, or pull_first_element with e.name == name.
PullBranch(name) == IF is_pattern(name) THEN "pattern" ELSE "literal"

\* The branch pattern_dict_items takes for a key: the locations the pattern
\* matches, or the key itself.
DictItemsBranch(key) == IF is_pattern(key) THEN "pattern" ELSE "literal"

\* The branch pool_add_item takes for an item name: junk, the candidates of
\* the pattern, or the name itself.
AddBranch(item_name) ==
    IF item_name = "#Junk" THEN "junk"
    ELSE IF is_pattern(item_name) THEN "pattern"
    ELSE "literal"

\* The same string handed as a name to pull_item_or_location, as a key to
\* pattern_dict_items and as an item name to pool_add_item.
ResolveName ==
    /\ IsStr(pm_pattern) /\ pm_result # Unset /\ pm_branch = Unset
    /\ pm_branch' = [pull_item_or_location |-> PullBranch(pm_pattern.str),
                     pattern_dict_items |-> DictItemsBranch(pm_pattern.str),
                     pool_add_item |-> AddBranch(pm_pattern.str)]
    /\ UNCHANGED <<pm_pattern, pm_name, pm_result, wdVars, recVars, distVars, poolVars,
                   entVars, fillVars>>

PatternNext == CompileAndMatch \/ ResolveName

SpecPattern == PatternInit /\ [][PatternNext]_vars


(***************************************************************************)
(* What the claims say of a match, stated on the name itself.              *)
(***************************************************************************)
IsSuffixOf(x, s) == \E i \in 0..Len(s) : SubSeq(s, i + 1, Len(s)) = x
IsPrefixOf(x, s) == \E i \in 0..Len(s) : SubSeq(s, 1, i) = x
OccursIn(x, s) == \E i \in 1..(Len(s) + 1) : \E j \in (i - 1)..Len(s) : SubSeq(s, i, j) = x

PlainPattern(p) == ~startswith(p, "!") /\ ~startswith(p, "#")
LeadingStar(p) == Len(p) >= 1 /\ SubSeq(p, 1, 1) = "*"
TrailingStar(p) == Len(p) >= 1 /\ SubSeq(p, Len(p), Len(p)) = "*"

\* C9: for a pattern that is neither a group nor negated, the compiled matcher
\* is a suffix match for a leading "*" ("*X": the name ends with X), a prefix
\* match for a trailing "*" ("X*": the name starts with X), a substring match
\* for both ("*X*": X occurs in the name) and equality for neither.
C9_WildcardSemantics ==
    (IsStr(pm_pattern) /\ IsBool(pm_result) /\ PlainPattern(pm_pattern.str)) =>
        LET p == pm_pattern.str
            n == Len(p)
        IN  pm_result.bool =
              IF LeadingStar(p) /\ TrailingStar(p) /\ n >= 2
                THEN OccursIn(SubSeq(p, 2, n - 1), pm_name)
              ELSE IF LeadingStar(p)
                THEN IsSuffixOf(SubSeq(p, 2, n), pm_name)
              ELSE IF TrailingStar(p)
                THEN IsPrefixOf(SubSeq(p, 1, n - 1), pm_name)
              ELSE pm_name = p

C9_Witness ==
    /\ pm_pattern = PyStr("*Sword")
    /\ pm_name = "Kokiri Sword"
    /\ pm_result = PyBool(TRUE)

\* C10: for a single pattern p (wildcard or # group, itself not negated) the
\* matcher of "!" followed by p gives, on every name, the negation of what the
\* matcher of p gives; both raise KeyError when p names no group.
C10_NegationInverts ==
    (IsStr(pm_pattern) /\ pm_result # Unset /\ startswith(pm_pattern.str, "!")
        /\ ~startswith(dropfirst(pm_pattern.str), "!")) =>
        LET p == dropfirst(pm_pattern.str)
            major == MajorGroupAfter(p, major_group, base_pool, settings)
        IN  IF StrPatternCompiles(p)
            THEN pm_result = PyBool(~StrPatternMatch(p, major, pm_name))
            ELSE pm_result = Raised("KeyError")

C10_Witness ==
    /\ pm_pattern = PyStr("!#Bottle")
    /\ pm_name = "Bottle with Milk"
    /\ pm_result = PyBool(FALSE)

\* C11: the matcher of a list pattern is true on a name exactly when the
\* matcher of at least one element, compiled on its own with its own "!", is
\* true on it; the matcher of the empty list is false on every name.
C11_ListIsUnion ==
    (IsList(pm_pattern) /\ IsBool(pm_result)) =>
        pm_result.bool =
            \E i \in DOMAIN pm_pattern.list :
                LET p == pm_pattern.list[i]
                IN  StrPatternMatch(p, MajorGroupAfter(p, major_group, base_pool, settings),
                                    pm_name)

C11_Witness ==
    /\ pm_pattern = PyList(<<"!a", "Bow">>)
    /\ pm_name = "Bow"
    /\ pm_result = PyBool(TRUE)

\* A string that begins with "!", "*" or "#" or ends with "*".
PatternShaped(p) ==
    \/ Len(p) >= 1 /\ SubSeq(p, 1, 1) \in {"!", "*", "#"}
    \/ TrailingStar(p)

\* C12: a name takes the literal branch of pull_item_or_location, of
\* pattern_dict_items and of pool_add_item exactly when it neither begins with
\* "!", "*" or "#" nor ends with "*", and the matcher compiled from such a name
\* is true on that exact name only.
C12_PatternOrLiteral ==
    pm_branch # Unset =>
        LET p == pm_pattern.str
        IN  /\ (pm_branch.pull_item_or_location = "literal") <=> ~PatternShaped(p)
            /\ (pm_branch.pattern_dict_items = "literal") <=> ~PatternShaped(p)
            /\ (pm_branch.pool_add_item = "literal") <=> ~PatternShaped(p)
            /\ ~PatternShaped(p) => pm_result = PyBool(pm_name = p)

C12_Witness ==
    /\ pm_branch # Unset
    /\ pm_pattern = PyStr("a*b")
    /\ pm_branch.pool_add_item = "literal"
    /\ pm_result = PyBool(FALSE)
    /\ pm_name = "ab"


(***************************************************************************)
(* The Record classes.  A Record is its class name and its fields; a       *)
(* document value (what to_json returns and the constructor takes) is a    *)
(* Python value.                                                           *)
(***************************************************************************)
RecordClasses ==
    {"Dungeon", "EmptyDungeon", "Trial", "Song", "ItemPool", "Location",
     "Entrance", "Starter", "Gossip"}

\* The `properties` each class hands to Record.__init__: field -> default.
RecordProperties(cls) ==
    CASE cls = "Dungeon"      -> [mq |-> PyNone]
      [] cls = "EmptyDungeon" -> [empty |-> PyNone]
      [] cls = "Trial"        -> [active |-> PyNone]
      [] cls = "Song"         -> [notes |-> PyNone]
      [] cls = "ItemPool"     -> [type |-> PyStr("set"), count |-> PyInt(1)]
      [] cls = "Location"     -> [item |-> PyNone, player |-> PyNone,
                                  price |-> PyNone, model |-> PyNone]
      [] cls = "Entrance"     -> [region |-> PyNone, origin |-> PyNone]
      [] cls = "Starter"      -> [count |-> PyInt(1)]
      [] cls = "Gossip"       -> [text |-> PyNone, colors |-> PyNone,
                                  hinted_locations |-> PyNone, hinted_items |-> PyNone]

\* dict.get(k, default)
DictGet(d, k, default) == IF k \in DOMAIN d THEN d[k] ELSE default

\* Record.update: a None document is {}, a list document is {"item": list};
\* each property is set from the document when it is there or update_all.
RecordUpdate(fields, properties, src, update_all) ==
    LET d == IF IsNone(src) THEN <<>>
             ELSE IF IsList(src) THEN [item |-> src]
             ELSE src.dict
    IN  [k \in DOMAIN properties |->
            IF update_all \/ k \in DOMAIN d
            THEN DictGet(d, k, properties[k])
            ELSE fields[k]]

\* Record.__init__: the fields keep the values the subclass set (its defaults)
\* unless a document is given.
RecordInit(properties, src) ==
    IF IsNone(src) THEN properties
    ELSE RecordUpdate(properties, properties, src, TRUE)

\* DungeonRecord.mapping and TrialRecord.mapping, with mapping.get(s, None).
DungeonMapping(s) ==
    IF s = "mq" THEN PyBool(TRUE) ELSE IF s = "vanilla" THEN PyBool(FALSE) ELSE PyNone
TrialMapping(s) ==
    IF s = "active" THEN PyBool(TRUE) ELSE IF s = "inactive" THEN PyBool(FALSE) ELSE PyNone

\* The document after EntranceRecord.__init__ moved its "from" key to "origin"
\* (the constructor changes the dict it is given).
EntranceSrcDict(src) ==
    LET d == IF IsStr(src) THEN [region |-> src] ELSE src.dict
    IN  IF "from" \in DOMAIN d
        THEN PyDict([k \in (DOMAIN d \cup {"origin"}) \ {"from"} |->
                        IF k = "origin" THEN d["from"] ELSE d[k]])
        ELSE PyDict(d)

\* The document each subclass's __init__ hands to Record.__init__.
ConstructorSrcDict(cls, src) ==
    CASE cls = "Dungeon" ->
            IF IsStr(src) THEN PyDict([mq |-> DungeonMapping(src.str)])
            ELSE src
      [] cls = "EmptyDungeon" ->
            IF src = PyStr("random") THEN PyDict([empty |-> PyNone])
            ELSE IF IsBool(src) THEN PyDict([empty |-> src])
            ELSE src
      [] cls = "Trial" ->
            IF IsStr(src) THEN PyDict([active |-> TrialMapping(src.str)])
            ELSE src
      [] cls = "Song" ->
            IF IsNone(src) \/ IsStr(src) THEN PyDict([notes |-> src])
            ELSE src
      [] cls \in {"ItemPool", "Starter"} ->
            IF IsInt(src) THEN PyDict([count |-> src]) ELSE src
      [] cls = "Location" ->
            IF IsStr(src) THEN PyDict([item |-> src]) ELSE src
      [] cls = "Entrance" -> EntranceSrcDict(src)
      [] cls = "Gossip" -> src

\* cls(src): the Record a class constructs from a document.
Construct(cls, src) ==
    [cls |-> cls,
     fields |-> RecordInit(RecordProperties(cls), ConstructorSrcDict(cls, src))]

\* str(x) for a string (itself) and for a list of strings (its repr).
ReprList(l) ==
    LET F[i \in 0..Len(l)] ==
            IF i = 0 THEN ""
            ELSE F[i - 1] \o (IF i = 1 THEN "" ELSE ", ") \o "'" \o l[i].str \o "'"
    IN  "[" \o F[Len(l)] \o "]"

PyStrOf(v) ==
    IF IsStr(v) THEN v.str
    ELSE IF IsList(v) THEN ReprList(v.list)
    ELSE "None"

\* Record.to_json: the fields that differ from their default.
RecordToJson(r) ==
    LET properties == RecordProperties(r.cls)
        keys == {k \in DOMAIN properties : r.fields[k] # properties[k]}
    IN  [k \in keys |-> r.fields[k]]

\* LocationRecord.to_json
LocationToJson(r) ==
    LET self_dict == RecordToJson(r)
    IN  IF DOMAIN self_dict = {"item"} THEN PyStr(PyStrOf(r.fields.item))
        ELSE PyDict(self_dict)

\* EntranceRecord.to_json: self_dict['origin'] raises KeyError when origin is
\* at its default.
EntranceToJson(r) ==
    LET self_dict == RecordToJson(r)
    IN  IF DOMAIN self_dict = {"region"} THEN PyStr(PyStrOf(r.fields.region))
        ELSE IF "origin" \notin DOMAIN self_dict THEN Raised("KeyError")
        ELSE PyDict([k \in (DOMAIN self_dict \cup {"from"}) \ {"origin"} |->
                        IF k = "from" THEN self_dict["origin"] ELSE self_dict[k]])

\* to_json of each class.
ToJson(r) ==
    CASE r.cls = "Dungeon" ->
            IF IsNone(r.fields.mq) THEN PyStr("random")
            ELSE IF r.fields.mq.bool THEN PyStr("mq") ELSE PyStr("vanilla")
      [] r.cls = "EmptyDungeon" -> r.fields.empty
      [] r.cls = "Trial" ->
            IF IsNone(r.fields.active) THEN PyStr("random")
            ELSE IF r.fields.active.bool THEN PyStr("active") ELSE PyStr("inactive")
      [] r.cls = "Song" -> r.fields.notes
      [] r.cls = "ItemPool" ->
            IF r.fields.type = PyStr("set") THEN r.fields.count
            ELSE PyDict(RecordToJson(r))
      [] r.cls = "Location" -> LocationToJson(r)
      [] r.cls = "Entrance" -> EntranceToJson(r)
      [] r.cls = "Starter" -> r.fields.count
      [] r.cls = "Gossip" -> PyDict(RecordToJson(r))

(***************************************************************************)
(* The record specification: a valid Record of some class is drawn, it is  *)
(* serialized, and a Record is constructed from the document.              *)
(***************************************************************************)
MaxCount == 2       \* largest count of an ItemPoolRecord or StarterRecord

Tristate == {PyNone, PyBool(TRUE), PyBool(FALSE)}
NoneOr(S) == {PyNone} \cup S
SomeList == PyList(<<PyStr("Bow"), PyStr("Bottle")>>)
Counts == {PyInt(n) : n \in 0..MaxCount}

RecordFields(cls) ==
    CASE cls = "Dungeon"      -> [mq : Tristate]
      [] cls = "EmptyDungeon" -> [empty : Tristate]
      [] cls = "Trial"        -> [active : Tristate]
      [] cls = "Song"         -> [notes : NoneOr({PyStr("<^>v")})]
      [] cls = "ItemPool"     -> [type : {PyStr("add"), PyStr("remove"), PyStr("set")},
                                  count : Counts]
      [] cls = "Location"     -> [item : NoneOr({PyStr("Bow"), PyStr("#Bottle"), SomeList,
                                                 PyList(<<PyStr("Bow")>>)}),
                                  player : NoneOr({PyInt(2)}),
                                  price : NoneOr({PyInt(10)}),
                                  model : NoneOr({PyStr("Bow")})]
      [] cls = "Entrance"     -> [region : NoneOr({PyStr("KF Links House")}),
                                  origin : NoneOr({PyStr("Kokiri Forest")})]
      [] cls = "Starter"      -> [count : Counts]
      [] cls = "Gossip"       -> [text : NoneOr({PyStr("hint")}),
                                  colors : NoneOr({PyList(<<PyStr("Red")>>)}),
                                  hinted_locations : NoneOr({PyList(<<PyStr("KF Midos Top Left Chest")>>)}),
                                  hinted_items : NoneOr({SomeList})]

Records == UNION {{[cls |-> cls, fields |-> f] : f \in RecordFields(cls)} : cls \in RecordClasses}

RecordSpecInit ==
    /\ rec \in Records
    /\ rec_json = Unset
    /\ rec_back = Unset
    /\ WdIdle /\ PmIdle /\ DistIdle /\ PoolIdle /\ EntIdle /\ FillIdle

\* rec.to_json()
SerializeRecord ==
    /\ rec_json = Unset
    /\ rec_json' = ToJson(rec)
    /\ UNCHANGED <<rec, rec_back, wdVars, pmVars, distVars, poolVars, entVars, fillVars>>

\* type(rec)(rec.to_json())
ConstructRecord ==
    /\ rec_json # Unset /\ ~IsRaised(rec_json)
    /\ rec_back = Unset
    /\ rec_back' = Construct(rec.cls, rec_json)
    /\ UNCHANGED <<rec, rec_json, wdVars, pmVars, distVars, poolVars, entVars, fillVars>>

RecordNext == SerializeRecord \/ ConstructRecord

SpecRecord == RecordSpecInit /\ [][RecordNext]_vars

\* C6: for every Record class and every valid record, the Record constructed
\* from its to_json() has the same class and the same field values; a
\* LocationRecord holding a candidate list and an EntranceRecord holding only
\* an origin are among them.
C6_RoundTrip == rec_back # Unset => rec_back = rec

\* The document a Record at its defaults is expected to give: the default
\* argument of the constructor where it has one, an empty dict otherwise.
DefaultDocument(cls) ==
    CASE cls \in {"Dungeon", "Trial"} -> PyStr("random")
      [] cls \in {"EmptyDungeon", "Song"} -> PyNone
      [] cls \in {"ItemPool", "Starter"} -> PyInt(1)
      [] cls \in {"Location", "Entrance", "Gossip"} -> PyDict(<<>>)

\* C7: a Record whose every field holds its default serializes, without an
\* error, to the empty (or default) document of its class; and the dict
\* Record.to_json builds holds exactly the keys whose value is not the default.
C7_DefaultSerializesEmpty ==
    rec_json # Unset =>
        /\ rec.fields = RecordProperties(rec.cls) => rec_json = DefaultDocument(rec.cls)
        /\ rec.cls = "Gossip" =>
              /\ IsDict(rec_json)
              /\ \A k \in DOMAIN rec.fields :
                    k \in DOMAIN rec_json.dict <=> rec.fields[k] # RecordProperties(rec.cls)[k]


(***************************************************************************)
(* Distribution: the raw document, one WorldDistribution per world, and    *)
(* the settings' starting items.                                           *)
(***************************************************************************)
WorldCount == 2     \* settings.world_count

\* 'World %d' % (i + 1) for each world
world_names == [i \in 1..WorldCount |-> "World " \o ToString(i)]
WorldNameSet == Range(world_names)

per_world_keys ==
    <<"randomized_settings", "item_pool", "dungeons", "empty_dungeons", "trials",
      "songs", "entrances", "locations", ":skipped_locations", ":woth_locations",
      ":goal_locations", ":barren_regions", "gossip_stones">>

\* The keys of update_dict in WorldDistribution.update.
UpdateSections ==
    {"randomized_settings", "dungeons", "empty_dungeons", "trials", "songs",
     "item_pool", "entrances", "locations", "woth_locations", "goal_locations",
     "barren_regions", "gossip_stones"}

SectionClass(k) ==
    CASE k = "dungeons" -> "Dungeon"
      [] k = "empty_dungeons" -> "EmptyDungeon"
      [] k = "trials" -> "Trial"
      [] k = "songs" -> "Song"
      [] k = "item_pool" -> "ItemPool"
      [] k = "entrances" -> "Entrance"
      [] k = "locations" -> "Location"
      [] k = "gossip_stones" -> "Gossip"

\* is_output_only
is_output_only(name) == startswith(name, ":")

\* One entry of update_dict: the Records built from the section's documents.
BuildSection(k, docs) ==
    CASE k = "randomized_settings" -> PyDict(docs)
      [] k \in {"woth_locations", "goal_locations", "barren_regions"} -> PyNone
      [] k \in {"locations", "gossip_stones"} ->
            LET names == {n \in DOMAIN docs : k = "locations" => ~is_output_only(n)}
            IN  PyDict([n \in names |->
                    IF is_pattern(n)
                    THEN PyList([i \in DOMAIN docs[n].list |->
                                    Construct(SectionClass(k), docs[n].list[i])])
                    ELSE Construct(SectionClass(k), docs[n])])
      [] OTHER -> PyDict([n \in DOMAIN docs |-> Construct(SectionClass(k), docs[n])])

\* dict.update
DictMerge(d, e) == [x \in DOMAIN d \cup DOMAIN e |-> IF x \in DOMAIN e THEN e[x] ELSE d[x]]

\* WorldDistribution.update
WorldUpdate(world, src, update_all) ==
    LET update_dict == [k \in UpdateSections |-> BuildSection(k, DictGet(src, k, <<>>))]
    IN  IF update_all
        THEN update_dict
        ELSE [k \in UpdateSections |->
                IF k \notin DOMAIN src THEN world[k]
                ELSE IF IsNone(world[k]) THEN update_dict[k]
                ELSE IF IsDict(update_dict[k])
                    THEN PyDict(DictMerge(world[k].dict, update_dict[k].dict))
                ELSE PyNone]

ResetSectionEveryWorld(worlds, k, section) ==
    LET F[i \in 0..WorldCount] ==
            IF i = 0 THEN worlds
            ELSE IF world_names[i] \in DOMAIN section
            THEN [w \in 1..WorldCount |->
                    WorldUpdate(F[i - 1][w], k :> section[world_names[i]].dict, FALSE)]
            ELSE F[i - 1]
        src_all == [key \in DOMAIN section \ WorldNameSet |-> section[key]]
    IN  IF DOMAIN src_all # {}
        THEN [w \in 1..WorldCount |-> WorldUpdate(F[WorldCount][w], k :> src_all, FALSE)]
        ELSE F[WorldCount]

\* reset's loop body for one key of per_world_keys whose value is a dict: the
\* 'World N' entry goes to world N, then the other entries go to every world.
ResetSection(worlds, k, section) ==
    LET own == [w \in 1..WorldCount |->
                    IF world_names[w] \in DOMAIN section
                    THEN WorldUpdate(worlds[w], k :> section[world_names[w]].dict, FALSE)
                    ELSE worlds[w]]
        src_all == [key \in DOMAIN section \ WorldNameSet |-> section[key]]
    IN  IF DOMAIN src_all # {}
        THEN [w \in 1..WorldCount |-> WorldUpdate(own[w], k :> src_all, FALSE)]
        ELSE own

ResetWorldsNoClear(worlds, src) ==
    LET F[i \in 0..Len(per_world_keys)] ==
            IF i = 0 THEN worlds
            ELSE LET k == per_world_keys[i]
                 IN  IF k \in DOMAIN src /\ ~startswith(k, ":")
                     THEN ResetSection(F[i - 1], k, src[k])
                     ELSE F[i - 1]
    IN  F[Len(per_world_keys)]

\* The per-world Records reset() derives: every world cleared, then each input
\* key of per_world_keys applied (the keys that start with ':' are skipped).
ResetWorlds(worlds, src) ==
    LET cleared == [w \in 1..WorldCount |-> WorldUpdate(worlds[w], <<>>, TRUE)]
        F[i \in 0..Len(per_world_keys)] ==
            IF i = 0 THEN cleared
            ELSE LET k == per_world_keys[i]
                 IN  IF k \in DOMAIN src /\ ~startswith(k, ":")
                     THEN ResetSection(F[i - 1], k, src[k])
                     ELSE F[i - 1]
    IN  F[Len(per_world_keys)]

\* src_dict after reset: EntranceRecord.__init__ has moved "from" to "origin"
\* in every entrance document it was given.
EntranceDocAfter(doc) == IF IsDict(doc) THEN EntranceSrcDict(doc) ELSE doc

SrcAfterReset(src) ==
    [k \in DOMAIN src |->
        IF k # "entrances" THEN src[k]
        ELSE [key \in DOMAIN src[k] |->
                IF key \in WorldNameSet
                THEN PyDict([n \in DOMAIN src[k][key].dict |->
                                EntranceDocAfter(src[k][key].dict[n])])
                ELSE EntranceDocAfter(src[k][key])]]


(***************************************************************************)
(* Starting items.  StartingItems.inventory / everything are tables of the *)
(* StartingItems module: a setting name gives an item name, whether it is  *)
(* special, and for equipment with ammunition the ammo item with its count *)
(* curve, indexed by the equipment's count.                                *)
(***************************************************************************)
NoAmmo == <<>>
StartingItemsEverything ==
    [bow          |-> [item_name |-> "Bow", special |-> FALSE,
                       ammo |-> <<[name |-> "Arrows", qty |-> <<30, 40, 50>>]>>],
     kokiri_sword |-> [item_name |-> "Kokiri Sword", special |-> FALSE, ammo |-> NoAmmo],
     lullaby      |-> [item_name |-> "Zeldas Lullaby", special |-> FALSE, ammo |-> NoAmmo],
     rutos_letter |-> [item_name |-> "Rutos Letter", special |-> TRUE, ammo |-> NoAmmo]]

\* StartingItems.inventory.values(), in order.
StartingItemsInventory ==
    <<StartingItemsEverything["bow"], StartingItemsEverything["rutos_letter"]>>

\* StarterRecord(count), its count, and isinstance(x, StarterRecord).
Starter(n) == Construct("Starter", PyInt(n))
StarterCount(r) == r.fields.count.int
IsStarterRecord(x) == "cls" \in DOMAIN x
AsStarter(x) == IF IsStarterRecord(x) THEN x ELSE Starter(x.int)

\* qty[i] with Python's indexing: a negative index counts from the end, an
\* index outside the tuple raises IndexError.
PyIndex(qty, i) ==
    IF i >= 0 /\ i < Len(qty) THEN PyInt(qty[i + 1])
    ELSE IF i < 0 /\ -i <= Len(qty) THEN PyInt(qty[Len(qty) + i + 1])
    ELSE Raised("IndexError")

\* The ammo loop of add_starting_ammo / add_starting_item_with_ammo for one
\* inventory item: each ammo gets qty[count - 1]; with keep, an ammo that is
\* already a starting item keeps its count.
SetAmmo(items, item, keep) ==
    LET F[j \in 0..Len(item.ammo)] ==
            IF j = 0 THEN items
            ELSE LET d == F[j - 1]
                     a == item.ammo[j]
                 IN  IF IsRaised(d) THEN d
                     ELSE IF keep /\ a.name \in DOMAIN d THEN d
                     ELSE LET n == PyIndex(a.qty, StarterCount(d[item.item_name]) - 1)
                          IN  IF IsRaised(n) THEN n
                              ELSE DictMerge(d, a.name :> Starter(n.int))
    IN  F[Len(item.ammo)]

\* add_starting_ammo
add_starting_ammo(items) ==
    LET F[i \in 0..Len(StartingItemsInventory)] ==
            IF i = 0 THEN items
            ELSE LET d == F[i - 1]
                     item == StartingItemsInventory[i]
                 IN  IF IsRaised(d) THEN d
                     ELSE IF item.item_name \in DOMAIN d /\ item.ammo # NoAmmo
                     THEN SetAmmo(d, item, TRUE)
                     ELSE d
    IN  F[Len(StartingItemsInventory)]

\* starting_items[name].count += n, the record created at 0 when missing.
AddCount(items, name, n) ==
    DictMerge(items, name :> Starter((IF name \in DOMAIN items
                                      THEN StarterCount(items[name]) ELSE 0) + n))

\* add_starting_item_with_ammo
add_starting_item_with_ammo(items, item_name, count) ==
    LET d == AddCount(items, item_name, count)
        found == {i \in DOMAIN StartingItemsInventory :
                    StartingItemsInventory[i].item_name = item_name
                    /\ StartingItemsInventory[i].ammo # NoAmmo}
    IN  IF found = {} THEN d
        ELSE SetAmmo(d, StartingItemsInventory[CHOOSE i \in found : \A j \in found : i <= j], FALSE)

\* reset: one name of starting_equipment + starting_songs + starting_inventory.
AddItemSetting(data, itemsetting, st) ==
    IF IsRaised(data) THEN data
    ELSE IF itemsetting \notin DOMAIN StartingItemsEverything THEN Raised("KeyError")
    ELSE LET item == StartingItemsEverything[itemsetting]
         IN  IF ~item.special THEN add_starting_item_with_ammo(data, item.item_name, 1)
             ELSE IF item.item_name = "Rutos Letter" /\ st.zora_fountain # "open"
                 THEN AddCount(data, "Rutos Letter", 1)
             ELSE IF item.item_name \in {"Bottle", "Rutos Letter"}
                 THEN AddCount(data, "Bottle", 1)
             ELSE Raised("KeyError")

\* math.ceil(n / 2) and math.floor(n / 2) for n >= 0
CeilHalf(n) == (n + 1) \div 2
FloorHalf(n) == n \div 2

AddHeartsFloor(data, st) ==
    IF IsRaised(data) THEN data
    ELSE IF st.starting_hearts > 3
            /\ "Piece of Heart" \notin DOMAIN st.starting_items
            /\ "Heart Container" \notin DOMAIN st.starting_items
    THEN LET n == st.starting_hearts - 3
         IN  IF st.item_pool_value = "plentiful"
             THEN AddCount(data, "Heart Container", n)
             ELSE AddCount(AddCount(data, "Piece of Heart", 4 * FloorHalf(n)),
                           "Heart Container", FloorHalf(n))
    ELSE data

\* reset: "add hearts"
AddHearts(data, st) ==
    IF IsRaised(data) THEN data
    ELSE IF st.starting_hearts > 3
            /\ "Piece of Heart" \notin DOMAIN st.starting_items
            /\ "Heart Container" \notin DOMAIN st.starting_items
    THEN LET n == st.starting_hearts - 3
         IN  IF st.item_pool_value = "plentiful"
             THEN IF st.starting_hearts >= 20
                  THEN AddCount(AddCount(data, "Piece of Heart", 4), "Heart Container", n - 1)
                  ELSE AddCount(data, "Heart Container", n)
             ELSE AddCount(AddCount(data, "Piece of Heart", 4 * CeilHalf(n)),
                           "Heart Container", FloorHalf(n))
    ELSE data

\* A 'World N' entry of starting_items made into StarterRecords, with ammo.
NormalizeWorldEntry(record) ==
    LET d == add_starting_ammo([n \in DOMAIN record.dict |-> AsStarter(record.dict[n])])
    IN  IF IsRaised(d) THEN d ELSE PyDict(d)

\* reset: "normalize starting items to use the dictionary format".  The value
\* is the new settings.starting_items, or the error raised on the way.
NormalizeStartingItems(st) ==
    LET old == st.starting_items
        per_name == [name \in DOMAIN old |->
                        IF name \in WorldNameSet THEN NormalizeWorldEntry(old[name])
                        ELSE AsStarter(old[name])]
        data0 == IF DOMAIN old = {} THEN old
                 ELSE IF \E name \in DOMAIN old : IsRaised(per_name[name])
                 THEN Raised("IndexError")
                 ELSE add_starting_ammo(per_name)
        settings_list == st.starting_equipment \o st.starting_songs \o st.starting_inventory
        F[i \in 0..Len(settings_list)] ==
            IF i = 0 THEN data0 ELSE AddItemSetting(F[i - 1], settings_list[i], st)
    IN  AddHearts(F[Len(settings_list)], st)

\* The settings after reset (when it raised nothing).
SettingsAfterReset(st) ==
    [st EXCEPT !.starting_items = NormalizeStartingItems(st),
               !.starting_equipment = <<>>,
               !.starting_songs = <<>>,
               !.starting_inventory = <<>>]

\* WorldDistribution.starting_items (a property): the 'World N' entry of this
\* world, updated with every entry that is not a 'World N' entry.
starting_items(st, w) ==
    LET items == st.starting_items
        own == IF world_names[w] \in DOMAIN items THEN items[world_names[w]].dict ELSE <<>>
        global == [n \in DOMAIN items \ WorldNameSet |-> items[n]]
    IN  DictMerge(own, global)

\* ItemPool.trade_items and ItemPool.child_trade_items: the trade sequences,
\* in trade order.
trade_items == item_groups["AdultTrade"]
child_trade_items == item_groups["ChildTrade"]

\* The trade item of a sequence that stays a starting item: of the present
\* ones, the one latest in the sequence ("None" when none is present).
EffectiveTradeFirst(items, sequence) ==
    LET present == {i \in DOMAIN sequence : sequence[i] \in DOMAIN items}
    IN  IF present = {} THEN "None"
        ELSE sequence[CHOOSE i \in present : \A j \in present : i <= j]

EffectiveTrade(items, sequence) ==
    LET present == {i \in DOMAIN sequence : sequence[i] \in DOMAIN items}
    IN  IF present = {} THEN "None"
        ELSE sequence[CHOOSE i \in present : \A j \in present : j <= i]

\* WorldDistribution.configure_effective_starting_items for world w, with
\* start_with_rupees and start_with_consumables off, no item on a skipped
\* location and no key ring: the value of effective_starting_items, or the
\* RuntimeError for a trade item the settings do not shuffle.
configure_effective_starting_items(st, w) ==
    LET items == starting_items(st, w)
        adult == EffectiveTrade(items, trade_items)
        child == EffectiveTrade(items, child_trade_items)
    IN  IF \/ \E n \in DOMAIN items : InList(n, trade_items) /\ ~InList(n, st.adult_trade_start)
           \/ \E n \in DOMAIN items : /\ InList(n, child_trade_items)
                                      /\ ~InList(n, st.shuffle_child_trade)
                                      /\ n # "Zeldas Letter"
        THEN Raised("RuntimeError")
        ELSE [n \in {m \in DOMAIN items :
                        (~InList(m, trade_items) /\ ~InList(m, child_trade_items))
                        \/ m = adult \/ m = child} |-> items[n]]

(***************************************************************************)
(* The distribution specification: a Distribution is constructed from a    *)
(* document and settings (the constructor ends with reset), and then       *)
(* reset, the in-place changes fill and alter_pool make to the Records,    *)
(* and reads of the starting_items property happen in any order.           *)
(***************************************************************************)
MaxMutations == 2   \* in-place changes made between resets, in total

Chest == "KF Midos Top Left Chest"

\* The override documents the Distribution is constructed from.
DistDocuments ==
    {<<>>,
     [locations |-> (Chest :> PyList(<<PyStr("Bow"), PyStr("Bottle")>>))
                    @@ ("Song from Impa" :> PyStr("#Junk"))],
     [locations |-> ("KF*" :> PyList(<<PyList(<<PyStr("Bow"), PyStr("Bombs")>>)>>))
                    @@ (":hidden" :> PyStr("Bow"))
                    @@ ("World 2" :> PyDict(Chest :> PyDict([item |-> PyStr("Bombs"),
                                                             player |-> PyInt(1)])))],
     [item_pool |-> ("Bow" :> PyInt(2))
                    @@ ("Bombs" :> PyDict([type |-> PyStr("add"), count |-> PyInt(1)]))
                    @@ ("World 1" :> PyDict("Bow" :> PyInt(1)))],
     [entrances |-> ("Kokiri Forest -> KF Links House" :>
                        PyDict(("region" :> PyStr("KF Midos House"))
                               @@ ("from" :> PyStr("Kokiri Forest")))),
      dungeons |-> ("Deku Tree" :> PyStr("mq")) @@ ("World 1" :> PyDict("Deku Tree" :> PyStr("vanilla")))],
     (":skipped_locations" :> (Chest :> PyStr("Bow")))
        @@ ("randomized_settings" :> ("World 1" :> PyDict("bridge" :> PyStr("open"))))
        @@ ("trials" :> ("Forest" :> PyStr("active")))
        @@ ("songs" :> ("Zeldas Lullaby" :> PyStr("<^>")))
        @@ ("gossip_stones" :> ("DMC*" :> PyList(<<PyDict([text |-> PyStr("hint")])>>)))
        @@ ("empty_dungeons" :> ("Deku Tree" :> PyBool(TRUE))),
     ("locatoins" :> (Chest :> PyStr("Bow")))
        @@ ("item_pool" :> ("Bow" :> PyInt(2))),
     ("starting_items" :> ("Bow" :> PyInt(1)))
        @@ ("locations" :> (Chest :> PyStr("Bow")))}

DefaultDistSettings ==
    [starting_items |-> <<>>, starting_equipment |-> <<>>, starting_songs |-> <<>>,
     starting_inventory |-> <<>>, starting_hearts |-> 3, item_pool_value |-> "balanced",
     zora_fountain |-> "closed"]

\* settings.starting_items as the settings document gives it: plain counts
\* or StarterRecords, global and under 'World N'.
OverCount == 4      \* a Bow count beyond the three entries of its ammo curve
GivenArrows == 5    \* an Arrows count the settings give themselves
DistStartingItems ==
    {<<>>, "Bow" :> PyInt(OverCount)}
    \cup {"Bow" :> PyInt(n) : n \in 0..MaxCount}
    \cup {("Bow" :> PyInt(n)) @@ ("World 1" :> PyDict("Bow" :> PyInt(m))) :
            n \in 1..MaxCount, m \in 1..MaxCount}
    \cup {("Bow" :> Starter(1)) @@ ("Arrows" :> PyInt(GivenArrows)) @@ ("World 2" :> PyDict("Bombs" :> PyInt(1))),
          "Piece of Heart" :> PyInt(1),
          "World 2" :> PyDict(("Bow" :> PyInt(2)) @@ ("Heart Container" :> PyInt(1)))}

DistSettings ==
    [starting_items : DistStartingItems,
     starting_equipment : {<<>>, <<"bow">>, <<"bow", "kokiri_sword">>},
     starting_songs : {<<>>, <<"lullaby">>},
     starting_inventory : {<<>>, <<"rutos_letter">>, <<"bow">>},
     starting_hearts : {3, 4, 20},
     item_pool_value : {"balanced", "plentiful"},
     zora_fountain : {"closed", "open"}]

\* Settings that differ from the default in the hearts only.
HeartSettings ==
    {[DefaultDistSettings EXCEPT !.starting_hearts = h, !.item_pool_value = v] :
        h \in {5, 6, 7, 19, 21}, v \in {"balanced", "plentiful"}}

\* WorldDistribution.__init__: update({}, update_all=True)
NewWorld == WorldUpdate(<<>>, <<>>, TRUE)

\* The check Distribution.__init__ makes of the keys of the document before
\* the worlds are made: a top-level starting_items is refused.
ConstructorCheck(doc) ==
    IF "starting_items" \in DOMAIN doc THEN Raised("ValueError") ELSE PyNone

\* The top-level keys of the document that the constructor and reset read.
TopLevelKeys ==
    Range(per_world_keys) \cup {"file_hash", "settings", "_settings", "custom_groups"}

\* The constructor returned: neither its check of the document nor the
\* reset it ends with raised.
Constructed == last_op \notin {"init raised", "init raised IndexError", "init raised KeyError"}

\* Distribution.__init__ with a document and settings.  A document the
\* constructor refuses, or settings on which its reset raises, leave no
\* Distribution to work on.  Documents are combined with the default
\* settings and settings with the empty document.
DistInit ==
    /\ \E doc \in DistDocuments, st \in DistSettings \cup HeartSettings :
          /\ doc = <<>> \/ st = DefaultDistSettings
          /\ IF IsRaised(ConstructorCheck(doc))
             THEN /\ src_dict = doc
                  /\ world_dists = <<>>
                  /\ settings = st
                  /\ last_op = "init raised"
             ELSE IF IsRaised(NormalizeStartingItems(st))
             THEN /\ src_dict = SrcAfterReset(doc)
                  /\ world_dists = ResetWorlds([w \in 1..WorldCount |-> NewWorld], doc)
                  /\ settings = st
                  /\ last_op = "init raised " \o NormalizeStartingItems(st).raised
             ELSE /\ src_dict = SrcAfterReset(doc)
                  /\ world_dists = ResetWorlds([w \in 1..WorldCount |-> NewWorld], doc)
                  /\ settings = SettingsAfterReset(st)
                  /\ last_op = "init"
          /\ first_reset = [world_dists |-> world_dists,
                            starting_items |-> settings.starting_items,
                            given |-> DOMAIN st.starting_items]
    /\ mutations = 0
    /\ si_world = Unset /\ si_result = Unset
    /\ major_group = <<>> /\ base_pool = <<>>
    /\ PmIdle /\ RecIdle /\ PoolIdle /\ EntIdle /\ FillIdle

\* Distribution.reset().  When the normalization raises, the worlds were
\* already re-derived and the settings are as they were.
Reset ==
    /\ Constructed
    /\ world_dists' = ResetWorlds(world_dists, src_dict)
    /\ src_dict' = SrcAfterReset(src_dict)
    /\ IF IsRaised(NormalizeStartingItems(settings))
       THEN last_op' = "reset raised" /\ UNCHANGED settings
       ELSE last_op' = "reset" /\ settings' = SettingsAfterReset(settings)
    /\ UNCHANGED <<first_reset, mutations, si_world, si_result, major_group, base_pool,
                   pmVars, recVars, poolVars, entVars, fillVars>>

Mutated(w, k, d) ==
    /\ world_dists' = [world_dists EXCEPT ![w][k] = PyDict(d)]
    /\ mutations' = mutations + 1
    /\ last_op' = "mutate"
    /\ UNCHANGED <<src_dict, first_reset, si_world, si_result, wdVars, pmVars, recVars, poolVars, entVars, fillVars>>

\* fill and fill_bosses: record.item = random.choices(valid_items)[0] for a
\* record that lists several items, and '#Junk' made '#JunkSong'.
FillChoosesItem ==
    /\ Constructed
    /\ mutations < MaxMutations
    /\ \E w \in 1..WorldCount :
          LET world_locations == world_dists[w]["locations"].dict
          IN  \E name \in DOMAIN world_locations :
                /\ "cls" \in DOMAIN world_locations[name]
                /\ LET item == world_locations[name].fields.item
                       choices == IF IsList(item) THEN Range(item.list)
                                  ELSE IF item = PyStr("#Junk") THEN {PyStr("#JunkSong")}
                                  ELSE {}
                   IN  \E c \in choices :
                         Mutated(w, "locations",
                                 [world_locations EXCEPT ![name].fields.item = c])

PoolItemNames == {"Bow", "Bombs"}

\* pool_replace_item, get_item: the ItemPoolRecord of a removed item counts
\* one less, and is deleted at count 1.
PoolRecordDecrement ==
    /\ Constructed
    /\ mutations < MaxMutations
    /\ \E w \in 1..WorldCount :
          LET records == world_dists[w]["item_pool"].dict
          IN  \E name \in DOMAIN records :
                IF records[name].fields.count.int > 1
                THEN Mutated(w, "item_pool",
                             [records EXCEPT ![name].fields.count =
                                                    PyInt(records[name].fields.count.int - 1)])
                ELSE Mutated(w, "item_pool",
                             [n \in DOMAIN records \ {name} |-> records[n]])

\* set_complete_itempool, get_item: the ItemPoolRecord of an added item counts
\* one more, and is created when missing.
PoolRecordIncrement ==
    /\ Constructed
    /\ mutations < MaxMutations
    /\ \E w \in 1..WorldCount, name \in PoolItemNames :
          LET records == world_dists[w]["item_pool"].dict
          IN  IF name \in DOMAIN records
              THEN Mutated(w, "item_pool",
                           [records EXCEPT ![name].fields.count =
                                                  PyInt(records[name].fields.count.int + 1)])
              ELSE Mutated(w, "item_pool",
                           DictMerge(records, name :> Construct("ItemPool", PyNone)))

\* WorldDistribution.add_location: KeyError when a location pattern of the
\* world matches the new location (or does not compile).
WorldAddLocation(world, new_location, new_item) ==
    LET world_locations == world["locations"].dict
    IN  IF \E location \in DOMAIN world_locations :
              ~PatternCompiles(PyStr(location))
              \/ pattern_matcher(PyStr(location), major_group, new_location)
        THEN Raised("KeyError")
        ELSE [world EXCEPT !["locations"] =
                PyDict(DictMerge(world_locations, new_location :> Construct("Location", PyStr(new_item))))]

\* Distribution.add_location: every world adds the location, a KeyError of a
\* world is caught.
AddLocation ==
    /\ Constructed
    /\ mutations < MaxMutations
    /\ \E new_location \in {Chest, "KF Mido Chest"}, new_item \in {"Bombs"} :
          world_dists' = [w \in 1..WorldCount |->
                LET added == WorldAddLocation(world_dists[w], new_location, new_item)
                IN  IF IsRaised(added) THEN world_dists[w] ELSE added]
    /\ mutations' = mutations + 1
    /\ last_op' = "mutate"
    /\ UNCHANGED <<src_dict, first_reset, si_world, si_result, wdVars, pmVars, recVars, poolVars, entVars, fillVars>>

\* world_dists[w].starting_items
ReadStartingItems ==
    /\ Constructed
    /\ \E w \in 1..WorldCount :
          /\ si_world' = w
          /\ si_result' = starting_items(settings, w)
    /\ last_op' = "read"
    /\ UNCHANGED <<src_dict, world_dists, first_reset, mutations, wdVars, pmVars, recVars, poolVars, entVars, fillVars>>

DistNext ==
    \/ Reset
    \/ FillChoosesItem
    \/ PoolRecordDecrement
    \/ PoolRecordIncrement
    \/ AddLocation
    \/ ReadStartingItems

SpecDist == DistInit /\ [][DistNext]_vars

C16_UnknownKeyRejected ==
    (\E k \in DOMAIN src_dict : k \notin TopLevelKeys) => last_op = "init raised"

\* C17: for every requested count of an equipment item, 0 and counts beyond
\* the length of the curve included, the ammo expansion assigns the ammo a
\* count that is an entry of the item's curve, so never more than the
\* curve's largest entry.
AmmoFromCurve(d) ==
    \A i \in DOMAIN StartingItemsInventory :
        LET item == StartingItemsInventory[i]
        IN  item.item_name \in DOMAIN d =>
                \A j \in DOMAIN item.ammo :
                    LET a == item.ammo[j]
                    IN  /\ a.name \in DOMAIN d
                        /\ \/ StarterCount(d[a.name]) = GivenArrows
                           \/ \E k \in DOMAIN a.qty : StarterCount(d[a.name]) = a.qty[k]

C17_AmmoWithinCurve ==
    /\ last_op # "init raised IndexError"
    /\ Constructed =>
          /\ AmmoFromCurve([n \in DOMAIN settings.starting_items \ WorldNameSet |->
                             settings.starting_items[n]])
          /\ \A wn \in DOMAIN settings.starting_items \cap WorldNameSet :
                AmmoFromCurve(settings.starting_items[wn].dict)

\* The count of a starting item after reset (0 when it is none).
StartingCount(name) ==
    IF name \in DOMAIN settings.starting_items
    THEN StarterCount(settings.starting_items[name]) ELSE 0

\* C25: after reset with starting_hearts h > 3 and settings that gave neither
\* heart item as a starting item, the starting items hold p heart pieces and
\* c heart containers with p a multiple of 4 and p/4 + c = h - 3; unless the
\* pool is plentiful c = floor((h - 3) / 2); in a plentiful pool p = 0, but
\* for h >= 20 p = 4 and c = h - 4.
C25_HeartSplit ==
    (/\ last_op \in {"init", "reset"}
     /\ settings.starting_hearts > 3
     /\ "Piece of Heart" \notin first_reset.given
     /\ "Heart Container" \notin first_reset.given) =>
        LET h == settings.starting_hearts
            p == StartingCount("Piece of Heart")
            c == StartingCount("Heart Container")
        IN  /\ p % 4 = 0
            /\ p \div 4 + c = h - 3
            /\ settings.item_pool_value # "plentiful" => c = (h - 3) \div 2
            /\ settings.item_pool_value = "plentiful" =>
                  IF h >= 20 THEN p = 4 /\ c = h - 4 ELSE p = 0

\* Twenty hearts in a plentiful pool, and a second reset that added nothing.
C25_Witness ==
    /\ last_op = "reset"
    /\ settings.starting_hearts = 20
    /\ settings.item_pool_value = "plentiful"
    /\ first_reset.given = {"Bow"}
    /\ StartingCount("Piece of Heart") = 4
    /\ StartingCount("Heart Container") = 16

\* The documents of an input section of src_dict under the key 'World w',
\* and those under keys that name no world.
SectionOf(k) ==
    IF k \in DOMAIN src_dict /\ k \in Range(per_world_keys) /\ ~startswith(k, ":")
    THEN src_dict[k] ELSE <<>>
OwnEntries(k, w) ==
    IF world_names[w] \in DOMAIN SectionOf(k) THEN SectionOf(k)[world_names[w]].dict ELSE <<>>
SharedEntries(k) == [n \in DOMAIN SectionOf(k) \ WorldNameSet |-> SectionOf(k)[n]]

\* C26: after reset, the Records of world N in every section are the Records
\* of the entries the input section has under 'World N' and of the entries
\* it has under keys that name no world, and of nothing else: no entry
\* under another world's key and no entry of a section whose name begins
\* with ':' is among them.
C26_PerWorldSections ==
    last_op \in {"init", "reset"} =>
        \A w \in 1..WorldCount, k \in UpdateSections :
            LET own == BuildSection(k, OwnEntries(k, w))
                shared == BuildSection(k, SharedEntries(k))
            IN  IF IsDict(own)
                THEN /\ IsDict(world_dists[w][k])
                     /\ DOMAIN world_dists[w][k].dict = DOMAIN own.dict \cup DOMAIN shared.dict
                     /\ \A n \in DOMAIN world_dists[w][k].dict :
                           world_dists[w][k].dict[n] =
                               IF n \in DOMAIN shared.dict THEN shared.dict[n] ELSE own.dict[n]
                ELSE world_dists[w][k] = PyNone

\* A reset of a document whose locations give world 2 a record of its own
\* next to a record for every world.
C26_Witness ==
    /\ last_op = "reset"
    /\ "locations" \in DOMAIN src_dict
    /\ "World 2" \in DOMAIN src_dict["locations"]
    /\ ":hidden" \in DOMAIN src_dict["locations"]
    /\ DOMAIN world_dists[1]["locations"].dict = {"KF*"}
    /\ DOMAIN world_dists[2]["locations"].dict = {"KF*", Chest}

\* C5: when settings.starting_items has a 'World N' entry and a global entry
\* for the same item name, the starting_items read for world N has the count
\* of the 'World N' entry.
C5_PerPlayerPrecedence ==
    si_result # Unset =>
        LET items == settings.starting_items
            wn == world_names[si_world]
        IN  wn \in DOMAIN items =>
                \A x \in DOMAIN items[wn].dict \cap (DOMAIN items \ WorldNameSet) :
                    si_result[x] = items[wn].dict[x]

(***************************************************************************)
(* Item-pool alteration.  The pool is a list of item names.  A call that   *)
(* draws from the random source has a set of outcomes; an outcome is a     *)
(* record of the lists the call works on:                                  *)
(*   pool, base (self.base_pool), major (self.major_group), bottles,       *)
(*   items (what the call returns) and raised ("" or the exception).       *)
(* The Item module's table (is_item, ItemIterator) and ItemPool's junk     *)
(* pool (get_junk_item) are imported tables, cut to a few names.           *)
(***************************************************************************)
ItemTable ==
    <<"Bow", "Bombs", "Bottle", "Bottle with Milk", "Pocket Egg", "Pocket Cucco", "Cojiro",
      "Weird Egg", "Chicken", "Zeldas Letter", "Recovery Heart", "Rupees (5)",
      "Zeldas Lullaby", "Kokiri Sword", "Ice Arrows", "Blue Fire Arrows",
      "Buy Deku Nut (5)", "Buy Bombs (5)", "Kokiri Emerald">>

\* Item.is_item
is_item(name) == InList(name, ItemTable)

\* ItemPool.junk_pool: the junk item names (their weights are left out).
junk_pool == <<"Recovery Heart", "Rupees (5)">>

\* list.count(x)
ListCount(l, x) == Cardinality({i \in DOMAIN l : l[i] = x})

\* list.remove(x): the list without the first x (x is in the list).
ListRemove(l, x) ==
    LET i == CHOOSE j \in DOMAIN l : l[j] = x /\ \A k \in 1..(j - 1) : l[k] # x
    IN  SubSeq(l, 1, i - 1) \o SubSeq(l, i + 1, Len(l))

\* random.choices(population, k=count): every list of count elements.
RandomChoices(population, count) ==
    IF count <= 0 THEN {<<>>} ELSE [1..count -> population]

\* ItemPool.get_junk_item(count, pool, plando_pool): count junk names; with a
\* pool and a plando pool, only junk the plando pool does not cap.
get_junk_item(count, the_pool, plando_pool) ==
    IF count < 1 THEN Raised("ValueError")
    ELSE LET jw_list == IF the_pool # <<>> /\ DOMAIN plando_pool # {}
                        THEN {junk \in Range(junk_pool) :
                                junk \notin DOMAIN plando_pool
                                \/ ListCount(the_pool, junk) < plando_pool[junk].fields.count.int}
                        ELSE Range(junk_pool)
         IN  IF jw_list = {} THEN Raised("RuntimeError") ELSE PyList(jw_list)

\* The plain names of an outcome's pool that match a compiled pattern.
PoolMatch(ps, item_name) ==
    SelectSeq(ps.pool, LAMBDA item : StrPatternMatch(item_name, ps.major, item))

\* WorldDistribution.pool_add_item: the names it may add, or what it raises.
AddCandidates(ps, item_name, count, plando_pool, st) ==
    IF item_name = "#Junk" THEN get_junk_item(count, ps.pool, plando_pool)
    ELSE IF is_pattern(item_name)
    THEN IF ~StrPatternCompiles(item_name) THEN Raised("KeyError")
         ELSE LET major == MajorGroupAfter(item_name, ps.major, ps.base, st)
                  candidates == {name \in Range(ItemTable) :
                                    /\ StrPatternMatch(item_name, major, name)
                                    /\ name \notin DOMAIN plando_pool
                                       \/ plando_pool[name].fields.count.int # 0}
              IN  IF candidates = {} THEN Raised("RuntimeError") ELSE PyList(candidates)
    ELSE IF ~is_item(item_name) THEN Raised("RuntimeError")
    ELSE PyList({item_name})

pool_add_item(ps, item_name, count, plando_pool, st) ==
    LET candidates == AddCandidates(ps, item_name, count, plando_pool, st)
        major == IF is_pattern(item_name) /\ item_name # "#Junk" /\ StrPatternCompiles(item_name)
                 THEN MajorGroupAfter(item_name, ps.major, ps.base, st)
                 ELSE ps.major
    IN  IF IsRaised(candidates)
        THEN {[ps EXCEPT !.raised = candidates.raised, !.items = <<>>]}
        ELSE {[ps EXCEPT !.pool = @ \o added_items, !.major = major, !.items = added_items] :
                added_items \in RandomChoices(candidates.list, count)}

RECURSIVE RemoveLoopNoRaise(_, _, _, _)
RemoveLoopNoRaise(ps, item_name, count, use_base_pool) ==
    IF count <= 0 THEN {ps}
    ELSE LET candidates == {ps.pool[i] : i \in {j \in DOMAIN ps.pool :
                                /\ StrPatternMatch(item_name, ps.major, ps.pool[j])
                                /\ InList(ps.pool[j], ps.base) # ~use_base_pool}}
         IN  IF candidates = {}
             THEN IF ~use_base_pool THEN {ps}
                  ELSE RemoveLoopNoRaise(ps, item_name, count, FALSE)
             ELSE UNION {RemoveLoopNoRaise(
                            [ps EXCEPT !.pool = ListRemove(@, removed_item),
                                       !.base = IF use_base_pool
                                                THEN ListRemove(@, removed_item) ELSE @,
                                       !.items = Append(@, removed_item)],
                            item_name, count - 1, use_base_pool) :
                         removed_item \in candidates}

\* The loop of pool_remove_item: count random pulls of a matching item whose
\* name is in base_pool (use_base_pool) or is not; when none is left, the
\* rest is pulled with use_base_pool=False, and there a KeyError is raised.
RECURSIVE RemoveLoop(_, _, _, _)
RemoveLoop(ps, item_name, count, use_base_pool) ==
    IF count <= 0 THEN {ps}
    ELSE LET candidates == {ps.pool[i] : i \in {j \in DOMAIN ps.pool :
                                /\ StrPatternMatch(item_name, ps.major, ps.pool[j])
                                /\ InList(ps.pool[j], ps.base) # ~use_base_pool}}
         IN  IF candidates = {}
             THEN IF ~use_base_pool
                  THEN {[ps EXCEPT !.raised =
                            IF is_item(item_name)
                            THEN "KeyError: No remaining items matching"
                            ELSE "KeyError: No items matching"]}
                  ELSE RemoveLoop(ps, item_name, count, FALSE)
             ELSE UNION {RemoveLoop(
                            [ps EXCEPT !.pool = ListRemove(@, removed_item),
                                       !.base = IF use_base_pool
                                                THEN ListRemove(@, removed_item) ELSE @,
                                       !.items = Append(@, removed_item)],
                            item_name, count - 1, use_base_pool) :
                         removed_item \in candidates}

PoolRemoveSecondTier(ps, item_name, count, st) ==
    IF ~StrPatternCompiles(item_name)
    THEN {[ps EXCEPT !.raised = "KeyError", !.items = <<>>]}
    ELSE RemoveLoop([ps EXCEPT !.major = MajorGroupAfter(item_name, @, ps.base, st),
                               !.items = <<>>],
                    item_name, count, FALSE)

\* WorldDistribution.pool_remove_item(pools, item_name, count) with world_id
\* None: the matcher is compiled (KeyError for an unknown group), then the loop.
pool_remove_item(ps, item_name, count, st) ==
    IF ~StrPatternCompiles(item_name)
    THEN {[ps EXCEPT !.raised = "KeyError", !.items = <<>>]}
    ELSE RemoveLoop([ps EXCEPT !.major = MajorGroupAfter(item_name, @, ps.base, st),
                               !.items = <<>>],
                    item_name, count, TRUE)

\* bottle_matcher, adult_trade_matcher, child_trade_matcher of alter_pool
bottle_matcher(item) == InList(item, search_groups["Bottle"])
adult_trade_matcher(item) == InList(item, search_groups["AdultTrade"])
child_trade_matcher(item) == InList(item, search_groups["ChildTrade"])

\* world.settings.item_pool_value in ['plentiful', 'ludicrous'] or
\* world.settings.adult_trade_shuffle
KeepsAdultTrade(st) ==
    st.item_pool_value \in {"plentiful", "ludicrous"} \/ st.adult_trade_shuffle

\* The 'set' step, for one item pool_add_item returned.
AfterAddedItem(ps, item, st) ==
    IF ps.raised # "" THEN {ps}
    ELSE IF bottle_matcher(item) THEN {[ps EXCEPT !.bottles = @ + 1]}
    ELSE IF adult_trade_matcher(item) /\ ~KeepsAdultTrade(st)
    THEN pool_remove_item(ps, "#AdultTrade", 1, st)
    ELSE {ps}

\* The 'set' step, for one item pool_remove_item returned.
AfterRemovedItem(ps, item, plando_pool, st) ==
    IF ps.raised # "" THEN {ps}
    ELSE IF bottle_matcher(item) THEN {[ps EXCEPT !.bottles = @ - 1]}
    ELSE IF adult_trade_matcher(item) /\ ~KeepsAdultTrade(st)
    THEN pool_add_item(ps, "#AdultTrade", 1, plando_pool, st)
    ELSE {ps}

\* for item in added_items / removed_items: ... of the 'set' step
AfterItems(ps, added, plando_pool, st) ==
    LET items == ps.items
        F[j \in 0..Len(items)] ==
            IF j = 0 THEN {ps}
            ELSE UNION {IF added THEN AfterAddedItem(s, items[j], st)
                        ELSE AfterRemovedItem(s, items[j], plando_pool, st) : s \in F[j - 1]}
    IN  F[Len(items)]

\* for item in pool_match: self.base_pool.remove(item); list.remove raises
\* ValueError for an item that is not in base_pool.
RemoveMatchFromBase(ps, pool_match) ==
    LET F[j \in 0..Len(pool_match)] ==
            IF j = 0 THEN ps
            ELSE IF F[j - 1].raised # "" THEN F[j - 1]
            ELSE IF ~InList(pool_match[j], F[j - 1].base)
                THEN [F[j - 1] EXCEPT !.raised = "ValueError"]
            ELSE [F[j - 1] EXCEPT !.base = ListRemove(@, pool_match[j])]
    IN  F[Len(pool_match)]

\* The body of the 'set' loop past its early exits, for a record that sets
\* item_name to count.
SetCount(ps, item_name, count, plando_pool, st) ==
    IF ~StrPatternCompiles(item_name) THEN {[ps EXCEPT !.raised = "KeyError"]}
    ELSE LET ps1 == [ps EXCEPT !.major = MajorGroupAfter(item_name, @, ps.base, st)]
             pool_match == PoolMatch(ps1, item_name)
             ps2 == RemoveMatchFromBase(ps1, pool_match)
             add_count == count - Len(pool_match)
         IN  IF ps2.raised # "" THEN {ps2}
             ELSE IF add_count > 0
             THEN UNION {AfterItems(o, TRUE, plando_pool, st) :
                            o \in pool_add_item(ps2, item_name, add_count, plando_pool, st)}
             ELSE UNION {AfterItems(o, FALSE, plando_pool, st) :
                            o \in pool_remove_item(ps2, item_name, -add_count, st)}

\* A KeyError of pool_remove_item caught and raised again by the trade
\* branches of the starting item loop.
Reraise(outcomes, message) ==
    {IF startswith(o.raised, "KeyError") THEN [o EXCEPT !.raised = message] ELSE o :
        o \in outcomes}

\* try: pool_remove_item ... except KeyError: pass
PassKeyError(outcomes) ==
    {IF startswith(o.raised, "KeyError") THEN [o EXCEPT !.raised = ""] ELSE o :
        o \in outcomes}

\* The branch of the starting item loop an item name takes.
StartingBranch(item_name, st) ==
    IF bottle_matcher(item_name) THEN "bottle"
    ELSE IF item_name \in {"Pocket Egg", "Pocket Cucco"} /\ st.adult_trade_shuffle THEN "pocket"
    ELSE IF adult_trade_matcher(item_name) /\ ~st.adult_trade_shuffle THEN "adult trade"
    ELSE IF item_name = "Ice Arrows" /\ st.blue_fire_arrows THEN "ice arrows"
    ELSE IF item_name \in {"Weird Egg", "Chicken"} /\ st.shuffle_child_trade # <<>> THEN "child trade"
    ELSE IF is_item(item_name) THEN "item"
    ELSE "none"

\* The body of the starting item loop for one starting item.
RemoveStarting(ps, item_name, count, st) ==
    LET branch == StartingBranch(item_name, st)
    IN  CASE branch = "bottle" -> pool_remove_item(ps, "#Bottle", count, st)
          [] branch = "pocket" ->
                IF InList("Pocket Egg", st.adult_trade_start)
                THEN Reraise(pool_remove_item(ps, "Pocket Egg", count, st),
                             "KeyError: Tried to start with a Pocket Egg or Pocket Cucco")
                ELSE IF ~InList("Pocket Cucco", st.adult_trade_start)
                THEN {[ps EXCEPT !.raised = "RuntimeError: An unshuffled trade item"]}
                ELSE Reraise(pool_remove_item(ps, "Pocket Cucco", count, st),
                             "KeyError: Tried to start with a Pocket Egg or Pocket Cucco")
          [] branch = "adult trade" -> pool_remove_item(ps, "#AdultTrade", count, st)
          [] branch = "ice arrows" -> pool_remove_item(ps, "Blue Fire Arrows", count, st)
          [] branch = "child trade" ->
                IF InList("Weird Egg", st.shuffle_child_trade)
                THEN Reraise(pool_remove_item(ps, "Weird Egg", count, st),
                             "KeyError: Tried to start with a Weird Egg or Chicken")
                ELSE IF ~InList("Chicken", st.shuffle_child_trade)
                THEN {[ps EXCEPT !.raised = "RuntimeError: An unshuffled trade item"]}
                ELSE Reraise(pool_remove_item(ps, "Chicken", count, st),
                             "KeyError: Tried to start with a Weird Egg or Chicken")
          [] branch = "item" -> PassKeyError(pool_remove_item(ps, item_name, count, st))
          [] OTHER -> {ps}

\* The last step leaving the pool as it is.
AdjustJunkNothing(ps, size, plando_pool, st) == {ps}

\* junk_to_add = pool_size - len(pool), then junk is added or removed.
AdjustJunkOutcomes(ps, size, plando_pool, st) ==
    LET junk_to_add == size - Len(ps.pool)
    IN  IF junk_to_add > 0
        THEN pool_add_item(ps, "#Junk", junk_to_add, plando_pool, st)
        ELSE pool_remove_item(ps, "#Junk", -junk_to_add, st)

(***************************************************************************)
(* The pool specification: alter_pool runs on a pool, the item_pool        *)
(* records of the world and the settings, one loop iteration per step.     *)
(***************************************************************************)
PoolRecord(type, count) == Construct("ItemPool", PyDict([type |-> PyStr(type), count |-> PyInt(count)]))

PoolRecordTypes == {"add", "remove", "set"}

\* The names the item_pool section of the model's documents uses.
PoolRecordNames ==
    {"Bow", "Bottle", "#Bottle", "#Junk", "Recovery Heart", "Pocket Egg", "Weird Egg",
     "Ice Arrows", "Blue Fire Arrows", "#Nope", "Nothing", "!Bow"}

\* The names used in documents of two records.
PairRecordNames == {"Bow", "#Bottle", "Recovery Heart", "Pocket Egg"}

\* item_pool as a document gives it: the keys in order, and the records.
\* Every document of one record, and the documents of two records over a
\* few names with counts 0 and MaxCount.
ItemPoolSections ==
    {[keys |-> <<>>, records |-> <<>>]}
    \cup {[keys |-> <<n>>, records |-> (n :> PoolRecord(ty, c))] :
            n \in PoolRecordNames, ty \in PoolRecordTypes, c \in 0..MaxCount}
    \cup {[keys |-> n,
           records |-> (n[1] :> PoolRecord(t1, c1)) @@ (n[2] :> PoolRecord(t2, c2))] :
            n \in {x \in PairRecordNames \X PairRecordNames : x[1] # x[2]},
            t1 \in PoolRecordTypes, t2 \in PoolRecordTypes,
            c1 \in {1, MaxCount}, c2 \in {0, MaxCount}}

\* The pools alter_pool is handed.
\* Documents that add copies of an item and then remove by a pattern that
\* matches both it and items of the pool handed in.
TierSections ==
    {[keys |-> <<"Pocket Egg", "!Bow">>,
      records |-> ("Pocket Egg" :> PoolRecord("add", c1)) @@ ("!Bow" :> PoolRecord("remove", c2))] :
        c1 \in 1..MaxCount, c2 \in 1..MaxCount}

\* Documents that add copies of an item and set the count of a pattern that
\* matches it.
AddSetSections ==
    {[keys |-> <<"Pocket Egg", "!Bow">>,
      records |-> ("Pocket Egg" :> PoolRecord("add", 1)) @@ ("!Bow" :> PoolRecord("set", c2))] :
        c2 \in {0, MaxCount}}

BigPool ==
    <<"Bow", "Bottle", "Bottle with Milk", "Pocket Egg", "Weird Egg", "Recovery Heart",
      "Rupees (5)", "Recovery Heart">>
SmallPool == <<"Bow", "Rupees (5)">>
PairPool == <<"Bow", "Bow", "Pocket Egg", "Rupees (5)">>

DefaultPoolSettings ==
    [shuffle_song_items |-> "song", triforce_hunt |-> FALSE, bridge |-> "open",
     blue_fire_arrows |-> FALSE, shuffle_child_trade |-> <<"Weird Egg">>,
     item_pool_value |-> "balanced", adult_trade_shuffle |-> FALSE,
     adult_trade_start |-> <<>>, starting_items |-> <<>>]

PoolStartingItems ==
    {<<>>,
     "Bottle" :> Starter(1),
     "Bottle" :> Starter(MaxCount + 1),
     "Pocket Egg" :> Starter(1),
     "Weird Egg" :> Starter(1),
     ("Pocket Egg" :> Starter(1)) @@ ("Pocket Cucco" :> Starter(1)),
     ("Weird Egg" :> Starter(1)) @@ ("Chicken" :> Starter(1)) @@ ("Zeldas Letter" :> Starter(1)),
     ("Bow" :> Starter(MaxCount)) @@ ("Arrows" :> Starter(40)),
     ("Ice Arrows" :> Starter(1)) @@ ("Zeldas Lullaby" :> Starter(1)),
     ("Recovery Heart" :> Starter(MaxCount)) @@ ("World 1" :> PyDict("Bow" :> Starter(1)))}

PoolSettings ==
    [shuffle_song_items : {"song"}, triforce_hunt : {FALSE}, bridge : {"open"},
     blue_fire_arrows : BOOLEAN,
     shuffle_child_trade : {<<>>, <<"Weird Egg">>, <<"Chicken">>, <<"Weird Egg", "Chicken">>},
     item_pool_value : {"balanced", "plentiful"},
     adult_trade_shuffle : BOOLEAN,
     adult_trade_start : {<<>>, <<"Pocket Egg">>, <<"Pocket Cucco">>,
                          <<"Pocket Egg", "Pocket Cucco">>},
     starting_items : PoolStartingItems]

\* The settings-varying documents.
FewItemPoolSections ==
    {[keys |-> <<>>, records |-> <<>>],
     [keys |-> <<"Pocket Egg", "Weird Egg">>,
      records |-> ("Pocket Egg" :> PoolRecord("set", 0)) @@ ("Weird Egg" :> PoolRecord("set", 2))],
     [keys |-> <<"Cojiro", "Blue Fire Arrows">>,
      records |-> ("Cojiro" :> PoolRecord("set", 1)) @@ ("Blue Fire Arrows" :> PoolRecord("set", 1))]}

PoolInit ==
    /\ \E section \in ItemPoolSections \cup FewItemPoolSections \cup TierSections
                          \cup AddSetSections,
          st \in PoolSettings,
          p \in {BigPool, SmallPool, PairPool} :
          /\ \/ st = DefaultPoolSettings
             \/ section \in FewItemPoolSections /\ p = BigPool
          /\ pool = p
          /\ item_pool = section.records
          /\ item_pool_keys = section.keys
          /\ settings = st
    /\ ap_entry = [pool |-> pool, item_pool |-> item_pool]
    /\ effective_starting_items = Unset
    /\ base_pool = <<>> /\ major_group = <<>>
    /\ pool_size = 0 /\ bottles = 0 /\ remove_trade = <<>>
    /\ ap_pc = "start" /\ ap_index = 0 /\ ap_todo = {} /\ ap_error = ""
    /\ ap_applied = <<>>
    /\ song_as_items = FALSE
    /\ PmIdle /\ RecIdle /\ DistIdle /\ EntIdle /\ FillIdle

\* The lists alter_pool and its callees work on, as an outcome record.
PoolState ==
    [pool |-> pool, base |-> base_pool, major |-> major_group, bottles |-> bottles,
     items |-> <<>>, raised |-> ""]

\* An outcome becomes the state; an exception ends alter_pool.
Commit(ps, next_pc) ==
    /\ pool' = ps.pool
    /\ base_pool' = ps.base
    /\ major_group' = ps.major
    /\ bottles' = ps.bottles
    /\ IF ps.raised # ""
       THEN ap_pc' = "error" /\ ap_error' = ps.raised
       ELSE ap_pc' = next_pc /\ UNCHANGED ap_error

\* alter_pool up to its first loop.
AlterPoolBegin ==
    /\ ap_pc = "start"
    /\ base_pool' = pool
    /\ pool_size' = Len(pool)
    /\ bottles' = 0
    /\ ap_pc' = "add_remove"
    /\ ap_index' = 1
    /\ UNCHANGED <<pool, item_pool, item_pool_keys, remove_trade, ap_todo, ap_error, ap_entry, effective_starting_items,
                   ap_applied, song_as_items, major_group, settings, pmVars, recVars, distVars, entVars, fillVars>>

\* One iteration of the first loop: an 'add' record is added, a 'remove'
\* record is removed, in the order of the records.
ApplyAddRemove ==
    /\ ap_pc = "add_remove" /\ ap_index <= Len(item_pool_keys)
    /\ LET item_name == item_pool_keys[ap_index]
           record == item_pool[item_name].fields
           outcomes ==
               IF record.type = PyStr("add")
               THEN pool_add_item(PoolState, item_name, record.count.int, item_pool, settings)
               ELSE IF record.type = PyStr("remove")
               THEN pool_remove_item(PoolState, item_name, record.count.int, settings)
               ELSE {PoolState}
       IN  /\ \E o \in outcomes : Commit(o, "add_remove")
           /\ ap_applied' = IF record.type.str \in {"add", "remove"}
                            THEN Append(ap_applied, <<record.type.str, item_name>>)
                            ELSE ap_applied
    /\ ap_index' = ap_index + 1
    /\ UNCHANGED <<item_pool, item_pool_keys, pool_size, remove_trade, ap_todo, ap_entry, effective_starting_items,
                   song_as_items, settings, pmVars, recVars, distVars, entVars, fillVars>>

\* The first loop is over: remove_trade = [] and the 'set' loop starts.
BeginSetLoop ==
    /\ ap_pc = "add_remove" /\ ap_index > Len(item_pool_keys)
    /\ ap_pc' = "set"
    /\ ap_index' = 1
    /\ remove_trade' = <<>>
    /\ UNCHANGED <<pool, item_pool, item_pool_keys, pool_size, bottles, ap_todo, ap_error,
                   ap_entry, effective_starting_items, ap_applied, song_as_items, wdVars, pmVars, recVars, distVars, entVars, fillVars>>

\* One iteration of the 'set' loop.
ApplySet ==
    /\ ap_pc = "set" /\ ap_index <= Len(item_pool_keys)
    /\ ap_index' = ap_index + 1
    /\ LET item_name == item_pool_keys[ap_index]
           record == item_pool[item_name].fields
           Skip == UNCHANGED <<pool, base_pool, major_group, bottles, ap_pc, ap_error,
                               ap_applied>>
           Raise(e) == /\ ap_pc' = "error" /\ ap_error' = e
                       /\ UNCHANGED <<pool, base_pool, major_group, bottles, ap_applied,
                                      item_pool, remove_trade>>
       IN  IF record.type # PyStr("set")
           THEN Skip /\ UNCHANGED <<item_pool, remove_trade>>
           ELSE IF item_name = "#Junk" THEN Raise("ValueError: #Junk")
           ELSE IF item_name = "Ice Arrows" /\ settings.blue_fire_arrows
               THEN Raise("ValueError: Ice Arrows")
           ELSE IF item_name = "Blue Fire Arrows" /\ ~settings.blue_fire_arrows
               THEN Raise("ValueError: Blue Fire Arrows")
           ELSE IF child_trade_matcher(item_name)
                   /\ ~InList(item_name, settings.shuffle_child_trade)
               THEN /\ remove_trade' = Append(remove_trade, item_name)
                    /\ Skip /\ UNCHANGED item_pool
           ELSE IF child_trade_matcher(item_name)
                   /\ settings.item_pool_value \notin {"plentiful", "ludicrous"}
               THEN /\ item_pool' = [item_pool EXCEPT ![item_name].fields.count = PyInt(1)]
                    /\ Skip /\ UNCHANGED remove_trade
           ELSE /\ \E o \in SetCount(PoolState, item_name, record.count.int, item_pool, settings) :
                      Commit(o, "set")
                /\ ap_applied' = Append(ap_applied, <<"set", item_name>>)
                /\ UNCHANGED <<item_pool, remove_trade>>
    /\ UNCHANGED <<item_pool_keys, pool_size, ap_todo, ap_entry, effective_starting_items, song_as_items, settings,
                   pmVars, recVars, distVars, entVars, fillVars>>

\* del self.item_pool[item] for every item of remove_trade
WithoutKeys(keys, gone) == SelectSeq(keys, LAMBDA k : ~InList(k, gone))

\* The 'set' loop is over: the unshuffled child trade items leave item_pool.
DeleteRemovedTrade ==
    /\ ap_pc = "set" /\ ap_index > Len(item_pool_keys)
    /\ item_pool_keys' = WithoutKeys(item_pool_keys, remove_trade)
    /\ item_pool' = [n \in DOMAIN item_pool \ Range(remove_trade) |-> item_pool[n]]
    /\ ap_pc' = "bottles"
    /\ UNCHANGED <<pool, pool_size, bottles, remove_trade, ap_index, ap_todo, ap_error,
                   ap_entry, effective_starting_items, ap_applied, song_as_items, wdVars, pmVars, recVars, distVars, entVars, fillVars>>

\* The bottles the 'set' records added are removed, those they removed are
\* added; then the starting item loop starts on self.starting_items.
RebalanceBottles ==
    /\ ap_pc = "bottles"
    /\ \E o \in (IF bottles > 0
                 THEN pool_remove_item(PoolState, "#Bottle", bottles, settings)
                 ELSE pool_add_item(PoolState, "#Bottle", -bottles, item_pool, settings)) :
          Commit(o, "starting")
    /\ ap_todo' = DOMAIN starting_items(settings, 1)
    /\ UNCHANGED <<item_pool, item_pool_keys, pool_size, remove_trade, ap_index, ap_entry, effective_starting_items,
                   ap_applied, song_as_items, settings, pmVars, recVars, distVars, entVars, fillVars>>

\* One iteration of the starting item loop.
RemoveStartingItem ==
    /\ ap_pc = "starting"
    /\ \E item_name \in ap_todo :
          LET record == starting_items(settings, 1)[item_name]
          IN  /\ \E o \in RemoveStarting(PoolState, item_name, StarterCount(record), settings) :
                    /\ Commit(o, "starting")
                    /\ song_as_items' =
                          IF o.raised = "" /\ StartingBranch(item_name, settings) = "item"
                             /\ InList(item_name, item_groups["Song"])
                          THEN TRUE ELSE song_as_items
              /\ ap_todo' = ap_todo \ {item_name}
    /\ UNCHANGED <<item_pool, item_pool_keys, pool_size, remove_trade, ap_index, ap_entry, effective_starting_items,
                   ap_applied, settings, pmVars, recVars, distVars, entVars, fillVars>>

\* The last step: junk is added or removed until the pool has pool_size items.
AdjustJunk ==
    /\ ap_pc = "starting" /\ ap_todo = {}
    /\ \E o \in AdjustJunkOutcomes(PoolState, pool_size, item_pool, settings) :
          Commit(o, "done")
    /\ UNCHANGED <<item_pool, item_pool_keys, pool_size, remove_trade, ap_index, ap_todo,
                   ap_entry, effective_starting_items, ap_applied, song_as_items, settings, pmVars, recVars, distVars, entVars, fillVars>>

\* configure_effective_starting_items for the world, once, at any point
\* around alter_pool: it reads the settings only.
ConfigureEffectiveStartingItems ==
    /\ effective_starting_items = Unset
    /\ ap_pc \in {"start", "done", "error"}
    /\ effective_starting_items' = configure_effective_starting_items(settings, 1)
    /\ UNCHANGED <<pool, item_pool, item_pool_keys, pool_size, bottles, remove_trade, ap_pc,
                   ap_index, ap_todo, ap_error, ap_entry, ap_applied, song_as_items,
                   wdVars, pmVars, recVars, distVars, entVars, fillVars>>

PoolNext ==
    \/ ConfigureEffectiveStartingItems
    \/ AlterPoolBegin
    \/ ApplyAddRemove
    \/ BeginSetLoop
    \/ ApplySet
    \/ DeleteRemovedTrade
    \/ RebalanceBottles
    \/ RemoveStartingItem
    \/ AdjustJunk

SpecPool == PoolInit /\ [][PoolNext]_vars

\* C1: when alter_pool has returned, the pool has as many items as the pool
\* it was handed.
C1_PoolSizeConserved ==
    ap_pc = "done" => Len(pool) = Len(ap_entry.pool)

\* alter_pool returned after records and starting items changed the pool:
\* something was applied, and junk made up for a removal.
C1_Witness ==
    /\ ap_pc = "done"
    /\ ap_applied # <<>>
    /\ pool # ap_entry.pool
    /\ DOMAIN starting_items(settings, 1) # {}

\* The step at hand is a call pool_remove_item(pool, item_name, count) of
\* alter_pool's first loop.
RemoveCall(item_name, count) ==
    /\ ap_pc = "add_remove" /\ ap_index <= Len(item_pool_keys)
    /\ item_name = item_pool_keys[ap_index]
    /\ item_pool[item_name].fields.type = PyStr("remove")
    /\ count = item_pool[item_name].fields.count.int

C19_ExhaustionDistinguished ==
    [][\A item_name \in DOMAIN item_pool, count \in 0..MaxCount + 1 :
          (/\ RemoveCall(item_name, count)
           /\ ap_error' \in {"KeyError: No items matching",
                              "KeyError: No remaining items matching"}) =>
              LET matched == \E i \in DOMAIN pool :
                                StrPatternMatch(item_name, major_group', pool[i])
              IN  (ap_error' = "KeyError: No items matching") <=> ~matched]_vars

\* The bottle-family items of a pool.
BottleCount(l) == Cardinality({i \in DOMAIN l : bottle_matcher(l[i])})

\* C20: when the bottle re-balancing step of alter_pool is over and no
\* starting item has been removed yet, the pool holds as many bottle-family
\* items as the pool alter_pool was handed.
C20_BottlesRebalanced ==
    (ap_pc = "starting" /\ ap_todo = DOMAIN starting_items(settings, 1)) =>
        BottleCount(pool) = BottleCount(ap_entry.pool)

\* C21: in the order alter_pool applies the records, no 'remove' record comes
\* before an 'add' record and no 'set' record comes before an 'add' or a
\* 'remove' record.
C21_AddRemoveSetOrder ==
    \A i \in DOMAIN ap_applied, j \in DOMAIN ap_applied :
        i < j =>
            /\ ~(ap_applied[i][1] = "remove" /\ ap_applied[j][1] = "add")
            /\ ~(ap_applied[i][1] = "set" /\ ap_applied[j][1] \in {"add", "remove"})

\* C22: a step of alter_pool's starting item loop that takes items out of
\* the pool does so for a record of effective_starting_items, the set
\* give_items grants: the starting item it visits is in that set, with the
\* same count.
C22_RemovesEffectiveSet ==
    [][LET effective == configure_effective_starting_items(settings, 1)
       IN  (/\ ap_pc = "starting" /\ ap_todo # {}
            /\ ~IsRaised(effective)
            /\ Len(pool') < Len(pool)) =>
               \A n \in ap_todo \ ap_todo' :
                   /\ n \in DOMAIN effective
                   /\ effective[n] = starting_items(settings, 1)[n]]_vars

\* C23: when the starting item loop of alter_pool visits a known item that
\* the pool holds less often than the starting item's count, alter_pool
\* raises.
C23_StartingRemovalRaises ==
    [][\A n \in ap_todo \ ap_todo' :
          (/\ ap_pc = "starting"
           /\ StartingBranch(n, settings) = "item"
           /\ ListCount(pool, n) < StarterCount(starting_items(settings, 1)[n])) =>
              ap_pc' = "error"]_vars

\* C29: an iteration of alter_pool's 'set' loop never ends with the
\* ValueError of self.base_pool.remove(item): every pool item that matches
\* the pattern of the 'set' record has an entry in base_pool.
C29_SetMatchesInBasePool ==
    [][ap_pc = "set" => ap_error' # "ValueError"]_vars

\* A present trade item the settings do not permit as a starting item.
UnshuffledTradePresent ==
    \E n \in DOMAIN starting_items(settings, 1) :
        \/ InList(n, trade_items) /\ ~InList(n, settings.adult_trade_start)
        \/ /\ InList(n, child_trade_items) /\ n # "Zeldas Letter"
           /\ ~InList(n, settings.shuffle_child_trade)

\* Of a trade sequence, effective_starting_items holds at most one item, and
\* it is the starting item latest in the sequence, with its record.
OneLatestTradeItem(sequence) ==
    LET raw == starting_items(settings, 1)
        kept == {i \in DOMAIN sequence : sequence[i] \in DOMAIN effective_starting_items}
        present == {i \in DOMAIN sequence : sequence[i] \in DOMAIN raw}
    IN  /\ Cardinality(kept) <= 1
        /\ present # {} => Cardinality(kept) = 1
        /\ \A i \in kept :
              /\ i \in present /\ \A j \in present : j <= i
              /\ effective_starting_items[sequence[i]] = raw[sequence[i]]

\* C24: when configure_effective_starting_items has run, either it raised
\* the RuntimeError, and a present trade item is not permitted by the
\* settings (Zeldas Letter is always permitted), or every present trade
\* item is permitted and effective_starting_items holds at most one adult
\* trade item and at most one child trade item, each the present one with
\* the highest index in its sequence.
C24_OneTradeItemEach ==
    effective_starting_items # Unset =>
        IF IsRaised(effective_starting_items)
        THEN effective_starting_items = Raised("RuntimeError") /\ UnshuffledTradePresent
        ELSE /\ ~UnshuffledTradePresent
             /\ OneLatestTradeItem(trade_items)
             /\ OneLatestTradeItem(child_trade_items)

\* Two adult trade items were starting items and the later one was kept.
C24_Witness ==
    /\ effective_starting_items # Unset
    /\ ~IsRaised(effective_starting_items)
    /\ DOMAIN starting_items(settings, 1) = {"Pocket Egg", "Pocket Cucco"}
    /\ DOMAIN effective_starting_items = {"Pocket Cucco"}

\* C15: when alter_pool has raised, the pool list and the item_pool records
\* are as they were when it was called.
C15_AllOrNothing ==
    ap_pc = "error" =>
        /\ pool = ap_entry.pool
        /\ item_pool = ap_entry.item_pool

\* The junk items of a pool.
JunkCount(l) == Cardinality({i \in DOMAIN l : InList(l[i], junk_pool)})

\* A record or starting item name touches X: it is X, a pattern that matches
\* X, or a name or group of the bottle or trade family X belongs to; the Ice
\* Arrows touch the Blue Fire Arrows.
Touches(name, X) ==
    \/ name = X
    \/ StrPatternCompiles(name) /\ StrPatternMatch(name, <<>>, X)
    \/ \E g \in {"Bottle", "AdultTrade", "ChildTrade"} :
            InList(X, item_groups[g]) /\ (InList(name, item_groups[g]) \/ name = "#" \o g)
    \/ name = "Ice Arrows" /\ X = "Blue Fire Arrows"

\* A 'remove' record of the kind C13 is about: a literal item that is no
\* junk, removed no more often than the pool at entry holds it.
LiteralRemove(X) ==
    /\ X \in DOMAIN ap_entry.item_pool
    /\ ap_entry.item_pool[X].fields.type = PyStr("remove")
    /\ ~is_pattern(X) /\ is_item(X) /\ ~InList(X, junk_pool)
    /\ ap_entry.item_pool[X].fields.count.int <= ListCount(ap_entry.pool, X)

\* The pool alter_pool returned holds n fewer X and n more junk items.
RemovedForJunk(X) ==
    LET n == ap_entry.item_pool[X].fields.count.int
    IN  /\ ListCount(pool, X) = ListCount(ap_entry.pool, X) - n
        /\ JunkCount(pool) = JunkCount(ap_entry.pool) + n

\* C13 as stated: for a 'remove' record of count n of a literal, non-junk
\* item X the pool holds n times, with no other record and no starting item
\* touching X, the returned pool holds n fewer X and n more junk items.
C13_RemoveGivesJunk ==
    ap_pc = "done" =>
        \A X \in DOMAIN ap_entry.item_pool :
            (/\ LiteralRemove(X)
             /\ \A name \in DOMAIN ap_entry.item_pool \ {X} : ~Touches(name, X)
             /\ \A name \in DOMAIN starting_items(settings, 1) : ~Touches(name, X))
            => RemovedForJunk(X)

\* C13 amended: when that 'remove' record is the only record of item_pool
\* and there are no starting items, the returned pool holds n fewer X and n
\* more junk items.
C13_SoleRemoveGivesJunk ==
    ap_pc = "done" =>
        \A X \in DOMAIN ap_entry.item_pool :
            (/\ LiteralRemove(X)
             /\ DOMAIN ap_entry.item_pool = {X}
             /\ DOMAIN starting_items(settings, 1) = {})
            => RemovedForJunk(X)

C13_Witness ==
    /\ ap_pc = "done"
    /\ DOMAIN ap_entry.item_pool = {"Bow"}
    /\ LiteralRemove("Bow")
    /\ ap_entry.item_pool["Bow"].fields.count.int = MaxCount
    /\ DOMAIN starting_items(settings, 1) = {}
    /\ ListCount(pool, "Bow") = 0

(***************************************************************************)
(* Entrance overrides.  The world's entrances and the target entrances of  *)
(* the shuffled pools belong to the World/Entrance modules; of an entrance *)
(* the model keeps its type and the region it is connected to, of a target *)
(* the region it leads to, its parent region and the parent region of the  *)
(* entrance it replaces.  EntranceShuffle's four functions are imported:   *)
(* the two checks raise EntranceShuffleError or return and change nothing, *)
(* change_connections connects the entrance to the target's region and     *)
(* disconnects the target, confirm_replacement deletes the target.         *)
(***************************************************************************)
NoRegion == "None"

\* worlds[self.id].get_entrance(name): the entrances the world knows.
WorldEntrances ==
    [A |-> [type |-> "Interior"], B |-> [type |-> "Interior"], C |-> [type |-> "Interior"],
     O |-> [type |-> "Overworld"], U |-> [type |-> "Dungeon"]]

\* entrance_pools and target_entrance_pools, by pool type in iteration order.
PoolTypes == <<"Interior", "Overworld">>
entrance_pools == [Interior |-> <<"A", "B", "C">>, Overworld |-> <<"O">>]
target_entrance_pools == [Interior |-> <<"T1", "T2", "T3">>, Overworld |-> <<"T4">>]

\* Of each target: parent_region.name and replaces.parent_region.name.
Targets ==
    [T1 |-> [parent |-> "Root1", replaces_parent |-> "P1"],
     T2 |-> [parent |-> "Root2", replaces_parent |-> "P2"],
     T3 |-> [parent |-> "Root3", replaces_parent |-> "P1"],
     T4 |-> [parent |-> "Root4", replaces_parent |-> "P1"]]

\* The connections before set_shuffled_entrances: B and O are connected
\* already, T1 and T2 lead to R1, T3 and T4 to R2.
InitialConnections ==
    [A |-> NoRegion, B |-> "R2", C |-> NoRegion, O |-> "R1", U |-> NoRegion,
     T1 |-> "R1", T2 |-> "R1", T3 |-> "R2", T4 |-> "R2"]

\* change_connections(entrance, target)
change_connections(conn, entrance, target) ==
    [conn EXCEPT ![entrance] = conn[target], ![target] = NoRegion]

\* The entrances section of the model's documents: one or two records.
EntranceDocuments ==
    {PyStr("R1"), PyStr("R2"), PyStr("R3"),
     PyDict([region |-> PyStr("R1"), origin |-> PyStr("P2")]),
     PyDict([region |-> PyStr("R2"), origin |-> PyStr("P2")]),
     PyDict("from" :> PyStr("P1"))}

EntranceNames == {"A", "B", "C", "O", "U", "X"}

EntranceSections ==
    {[keys |-> <<n>>, records |-> (n :> Construct("Entrance", d))] :
        n \in EntranceNames, d \in EntranceDocuments}
    \cup {[keys |-> n,
           records |-> (n[1] :> Construct("Entrance", d1)) @@ (n[2] :> Construct("Entrance", d2))] :
            n \in {x \in EntranceNames \X EntranceNames : x[1] # x[2]},
            d1 \in EntranceDocuments, d2 \in EntranceDocuments}

EntranceInit ==
    /\ \E section \in EntranceSections :
          entrances = section.records /\ entrance_keys = section.keys
    /\ connected_region = InitialConnections
    /\ replaces = [e \in DOMAIN WorldEntrances |-> "None"]
    /\ consumed = {}
    /\ es_pc = "record" /\ es_index = 1 /\ es_pool = 0
    /\ entrance_found = FALSE
    /\ es_error = ""
    /\ es_attempt = Unset
    /\ es_calls = <<>>
    /\ WdIdle /\ PmIdle /\ RecIdle /\ DistIdle /\ PoolIdle /\ FillIdle

EsRaise(message) ==
    /\ es_pc' = "error"
    /\ es_error' = message

\* The calls one connection attempt makes to EntranceShuffle, in order, each
\* with how it ended; a call that raises EntranceShuffleError ends the try
\* block, and confirm_replacement follows the block.
ConnectCallsConfirmAnyway(name, matched_target, compatible, valid) ==
    LET pair == <<name, matched_target>>
    IN  IF ~compatible
        THEN <<<<"check_entrances_compatibility", pair, "raised">>>>
        ELSE <<<<"check_entrances_compatibility", pair, "returned">>,
               <<"change_connections", pair, "returned">>,
               <<"validate_world", pair, IF valid THEN "returned" ELSE "raised">>,
               <<"confirm_replacement", pair, "returned">>>>
ConnectCalls(name, matched_target, compatible, valid) ==
    LET pair == <<name, matched_target>>
    IN  IF ~compatible
        THEN <<<<"check_entrances_compatibility", pair, "raised">>>>
        ELSE IF ~valid
        THEN <<<<"check_entrances_compatibility", pair, "returned">>,
               <<"change_connections", pair, "returned">>,
               <<"validate_world", pair, "raised">>>>
        ELSE <<<<"check_entrances_compatibility", pair, "returned">>,
               <<"change_connections", pair, "returned">>,
               <<"validate_world", pair, "returned">>,
               <<"confirm_replacement", pair, "returned">>>>

\* The head of the record loop: a record without region is skipped, an
\* entrance the world does not know is an error, entrance_found = False.
BeginEntranceRecord ==
    /\ es_pc = "record" /\ es_index <= Len(entrance_keys)
    /\ LET name == entrance_keys[es_index]
           record == entrances[name].fields
       IN  IF IsNone(record.region)
           THEN es_index' = es_index + 1 /\ UNCHANGED <<es_pc, es_error, es_pool, entrance_found>>
           ELSE IF name \notin DOMAIN WorldEntrances
           THEN EsRaise("Unknown entrance") /\ UNCHANGED <<es_index, es_pool, entrance_found>>
           ELSE /\ es_pc' = "pools" /\ es_pool' = 1 /\ entrance_found' = FALSE
                /\ UNCHANGED <<es_index, es_error>>
    /\ UNCHANGED <<entrances, entrance_keys, connected_region, replaces, consumed, es_attempt,
                   es_calls, wdVars, pmVars, recVars, distVars, poolVars, fillVars>>

\* One iteration of the loop over entrance_pools for the running record.
\* The two checks of EntranceShuffle pass or raise, as they decide.
VisitEntrancePool ==
    /\ es_pc = "pools" /\ es_pool <= Len(PoolTypes)
    /\ LET name == entrance_keys[es_index]
           record == entrances[name].fields
           pool_type == PoolTypes[es_pool]
           target_region == record.region.str
           matched_targets_to_region ==
               SelectSeq(target_entrance_pools[pool_type],
                         LAMBDA target : connected_region[target] # NoRegion
                                         /\ connected_region[target] = target_region)
           from_origin ==
               SelectSeq(matched_targets_to_region,
                         LAMBDA target : Targets[target].replaces_parent = record.origin.str)
           Continue == /\ es_pool' = es_pool + 1
                       /\ UNCHANGED <<es_pc, es_error, connected_region, replaces, consumed,
                                      es_attempt, es_calls>>
           Fail(message) == /\ EsRaise(message)
                            /\ UNCHANGED <<es_pool, connected_region, replaces, consumed,
                                           es_attempt, es_calls>>
       IN  IF ~InList(name, entrance_pools[pool_type])
           THEN Continue /\ UNCHANGED entrance_found
           ELSE /\ entrance_found' = TRUE
                /\ IF connected_region[name] # NoRegion
                   THEN IF WorldEntrances[name].type = "Overworld"
                        THEN Continue
                        ELSE Fail("Entrance already shuffled")
                   ELSE IF matched_targets_to_region = <<>>
                   THEN Fail("No entrance found to replace with")
                   ELSE IF ~IsNone(record.origin) /\ record.origin.str # "" /\ from_origin = <<>>
                   THEN Fail("No entrance found to replace with, from")
                   ELSE LET matched_target ==
                                IF ~IsNone(record.origin) /\ record.origin.str # ""
                                THEN from_origin[1] ELSE matched_targets_to_region[1]
                            changed == change_connections(connected_region, name, matched_target)
                            attempt == [entrance |-> name, target |-> matched_target,
                                        before |-> connected_region]
                        IN  IF connected_region[matched_target] = NoRegion
                            THEN Fail("Entrance is already shuffled")
                            ELSE /\ es_attempt' = attempt
                                 /\ \E compatible \in BOOLEAN, valid \in BOOLEAN :
                                      IF ~compatible
                                      THEN /\ EsRaise("Cannot connect")
                                           /\ es_calls' = es_calls \o ConnectCalls(name, matched_target,
                                                                                      compatible, valid)
                                           /\ UNCHANGED <<es_pool, connected_region, replaces,
                                                          consumed>>
                                      ELSE IF ~valid
                                      THEN /\ EsRaise("Cannot connect")
                                           /\ es_calls' = es_calls \o ConnectCalls(name, matched_target,
                                                                                      compatible, valid)
                                           /\ connected_region' = changed
                                           /\ replaces' = [replaces EXCEPT ![name] = matched_target]
                                           /\ UNCHANGED <<es_pool, consumed>>
                                      ELSE /\ es_calls' = es_calls \o ConnectCalls(name, matched_target,
                                                                                      compatible, valid)
                                           /\ connected_region' = changed
                                           /\ replaces' = [replaces EXCEPT ![name] = matched_target]
                                           /\ consumed' = consumed \cup {matched_target}
                                           /\ es_pool' = es_pool + 1
                                           /\ UNCHANGED <<es_pc, es_error>>
    /\ UNCHANGED <<entrances, entrance_keys, es_index, wdVars, pmVars, recVars, distVars,
                   poolVars, fillVars>>

\* The loop over the pools is over: an entrance found in no pool is an error.
EndEntranceRecord ==
    /\ es_pc = "pools" /\ es_pool > Len(PoolTypes)
    /\ IF ~entrance_found
       THEN EsRaise("Entrance does not belong to a pool of shuffled entrances")
            /\ UNCHANGED es_index
       ELSE es_pc' = "record" /\ es_index' = es_index + 1 /\ UNCHANGED es_error
    /\ UNCHANGED <<entrances, entrance_keys, connected_region, replaces, consumed, es_pool,
                   entrance_found, es_attempt, es_calls, wdVars, pmVars, recVars, distVars,
                   poolVars, fillVars>>

\* set_shuffled_entrances returns after the last record.
EntrancesDone ==
    /\ es_pc = "record" /\ es_index > Len(entrance_keys)
    /\ es_pc' = "done"
    /\ UNCHANGED <<entrances, entrance_keys, connected_region, replaces, consumed, es_index,
                   es_pool, entrance_found, es_error, es_attempt, es_calls, wdVars, pmVars,
                   recVars, distVars, poolVars, fillVars>>

EntranceNext ==
    \/ BeginEntranceRecord
    \/ VisitEntrancePool
    \/ EndEntranceRecord
    \/ EntrancesDone

SpecEntrance == EntranceInit /\ [][EntranceNext]_vars

\* C2: when a connection is refused by the compatibility check or by the
\* world validation, the matched entrance and the matched target are
\* connected as they were right before the attempt.
C2_EntranceAtomic ==
    es_error = "Cannot connect" =>
        /\ connected_region[es_attempt.entrance] = es_attempt.before[es_attempt.entrance]
        /\ connected_region[es_attempt.target] = es_attempt.before[es_attempt.target]

\* C30: change_connections is called for a pair right after
\* check_entrances_compatibility returned for it, and confirm_replacement
\* right after validate_world returned for it; a check that raised is the
\* last call made, no confirm_replacement was made for its pair, and
\* set_shuffled_entrances has ended with the error at that record and takes
\* no further step.
C30_ConnectCallOrder ==
    [][/\ es_pc # "error"
       /\ \A i \in DOMAIN es_calls' :
             LET call == es_calls'[i]
             IN  /\ call[1] = "change_connections" =>
                       /\ i > 1
                       /\ es_calls'[i - 1] =
                             <<"check_entrances_compatibility", call[2], "returned">>
                 /\ call[1] = "confirm_replacement" =>
                       /\ i > 2
                       /\ es_calls'[i - 1] = <<"validate_world", call[2], "returned">>
                       /\ es_calls'[i - 2] = <<"change_connections", call[2], "returned">>
                 /\ call[3] = "raised" =>
                       /\ i = Len(es_calls')
                       /\ call[1] \in {"check_entrances_compatibility", "validate_world"}
                       /\ \A j \in DOMAIN es_calls' :
                             ~(/\ es_calls'[j][1] = "confirm_replacement"
                               /\ es_calls'[j][2] = call[2])
                       /\ es_pc' = "error" /\ es_error' = "Cannot connect"
                       /\ es_index' = es_index
                       /\ call[2] = <<entrance_keys[es_index], es_attempt'.target>>]_vars

\* Two records: the first pair was confirmed, the second was refused by
\* validate_world.
C30_Witness ==
    /\ es_pc = "error" /\ es_index = 2
    /\ Len(es_calls) = 7
    /\ es_calls[4][1] = "confirm_replacement"
    /\ es_calls[7] = <<"validate_world", <<entrance_keys[2], es_attempt.target>>, "raised">>

(***************************************************************************)
(* Location fill.  An item is [name, world], a location is [name, world,   *)
(* type, price]; worlds are numbered from 0 as World.id is, and the        *)
(* WorldDistribution that fills is the one of world 0.  The item and       *)
(* location tables (Item.ItemInfo, LocationList.location_table,            *)
(* LocationFactory), World.push_item and Search.can_beat_game are          *)
(* imported; the reachability check answers as it decides.                 *)
(***************************************************************************)
self_id == 0

\* ItemInfo: the type and the advancement flag of an item name.
ItemType(name) ==
    IF name = "Zeldas Lullaby" THEN "Song"
    ELSE IF startswith(name, "Buy ") THEN "Shop"
    ELSE IF name = "Kokiri Emerald" THEN "DungeonReward"
    ELSE "Item"
ItemAdvancement(name) ==
    name \notin {"Recovery Heart", "Rupees (5)", "Buy Deku Nut (5)", "Chicken", "Pocket Cucco"}

Item(name, world) == [name |-> name, world |-> world]

\* location_table: the type of a location and its vanilla item.
location_table ==
    (Chest :> [type |-> "Chest", vanilla |-> "Rupees (5)"])
    @@ ("KF Kokiri Sword Chest" :> [type |-> "Chest", vanilla |-> "Kokiri Sword"])
    @@ ("Song from Impa" :> [type |-> "Song", vanilla |-> "Zeldas Lullaby"])
    @@ ("KF Shop Item 1" :> [type |-> "Shop", vanilla |-> "Buy Deku Nut (5)"])
    @@ ("Queen Gohma" :> [type |-> "Boss", vanilla |-> "Kokiri Emerald"])

\* The names of location_table in its order.
LocationOrder ==
    <<Chest, "KF Kokiri Sword Chest", "Song from Impa", "KF Shop Item 1", "Queen Gohma">>

\* str.lower
UpperToLower ==
    ("A" :> "a") @@ ("B" :> "b") @@ ("C" :> "c") @@ ("D" :> "d") @@ ("E" :> "e")
    @@ ("F" :> "f") @@ ("G" :> "g") @@ ("H" :> "h") @@ ("I" :> "i") @@ ("J" :> "j")
    @@ ("K" :> "k") @@ ("L" :> "l") @@ ("M" :> "m") @@ ("N" :> "n") @@ ("O" :> "o")
    @@ ("P" :> "p") @@ ("Q" :> "q") @@ ("R" :> "r") @@ ("S" :> "s") @@ ("T" :> "t")
    @@ ("U" :> "u") @@ ("V" :> "v") @@ ("W" :> "w") @@ ("X" :> "x") @@ ("Y" :> "y")
    @@ ("Z" :> "z")
lower(s) ==
    LET F[i \in 0..Len(s)] ==
            IF i = 0 THEN ""
            ELSE LET c == SubSeq(s, i, i)
                 IN  F[i - 1] \o (IF c \in DOMAIN UpperToLower THEN UpperToLower[c] ELSE c)
    IN  F[Len(s)]

\* LocationFactory(name): the table entry whose name is name up to case, or
\* a KeyError.
LocationFactory(name) ==
    LET found == {k \in DOMAIN location_table : lower(k) = lower(name)}
    IN  IF found = {} THEN Raised("KeyError")
        ELSE LET k == CHOOSE x \in found : TRUE
             IN  [name |-> k, type |-> location_table[k].type]

\* LocationIterator(pattern): the names of the table the pattern matches, in
\* the order of the table.
LocationIterator(key, major) ==
    SelectSeq(LocationOrder, LAMBDA name : StrPatternMatch(key, major, name))

\* [x for the_pool in pools for x in the_pool]
Flatten(pools) ==
    LET F[i \in 0..Len(pools)] == IF i = 0 THEN <<>> ELSE F[i - 1] \o pools[i]
    IN  F[Len(pools)]

\* fill's location_matcher
location_matcher(loc, location_name) ==
    loc.world = self_id /\ lower(loc.name) = lower(location_name)

\* pull_first_element that leaves the element in its pool.
PullFirstKeep(pools, location_name) ==
    LET hits == {<<i, j>> \in {<<a, b>> \in (DOMAIN pools) \X (1..Len(Flatten(pools))) :
                                    b \in DOMAIN pools[a]} :
                    location_matcher(pools[i][j], location_name)}
    IN  IF hits = {} THEN [element |-> PyNone, pools |-> pools]
        ELSE LET h == CHOOSE x \in hits :
                        \A y \in hits : x[1] < y[1] \/ (x[1] = y[1] /\ x[2] <= y[2])
             IN  [element |-> pools[h[1]][h[2]], pools |-> pools]

\* pull_first_element(location_pools, location_matcher): the first matching
\* location of the first pool that has one, and the pools without it; None
\* when no pool has one.
pull_first_element(pools, location_name) ==
    LET hits == {<<i, j>> \in {<<a, b>> \in (DOMAIN pools) \X (1..Len(Flatten(pools))) :
                                    b \in DOMAIN pools[a]} :
                    location_matcher(pools[i][j], location_name)}
    IN  IF hits = {} THEN [element |-> PyNone, pools |-> pools]
        ELSE LET h == CHOOSE x \in hits :
                        \A y \in hits : x[1] < y[1] \/ (x[1] = y[1] /\ x[2] <= y[2])
             IN  [element |-> pools[h[1]][h[2]],
                  pools |-> [pools EXCEPT ![h[1]] =
                                SubSeq(@, 1, h[2] - 1) \o SubSeq(@, h[2] + 1, Len(@))]]

\* The names of a list of items.
ItemNamesOf(items) == [i \in DOMAIN items |-> items[i].name]

\* The list without, for each used item in turn, its first occurrence.
RemoveUsed(valid_items, used) ==
    LET F[i \in 0..Len(used)] ==
            IF i = 0 THEN valid_items
            ELSE IF InList(used[i], F[i - 1]) THEN ListRemove(F[i - 1], used[i])
            ELSE F[i - 1]
    IN  F[Len(used)]

\* choice[0] == '#' and choice[1:] in item_groups
IsItemGroup(choice) == startswith(choice, "#") /\ dropfirst(choice) \in DOMAIN item_groups

\* record.item as pattern_matcher takes it: a string, or a list of strings.
AsPattern(item) ==
    IF IsList(item) THEN PyList([i \in DOMAIN item.list |-> item.list[i].str]) ELSE item

\* WorldDistribution.get_valid_items_from_record (the pattern compiles).
get_valid_items_from_record(itempool, used, item, major) ==
    LET names == ItemNamesOf(itempool)
        some_match == \E i \in DOMAIN names : pattern_matcher(AsPattern(item), major, names[i])
        valid_items ==
            IF IsList(item)
            THEN LET choices == [i \in DOMAIN item.list |-> item.list[i].str]
                 IN  SelectSeq(choices, LAMBDA choice : IsItemGroup(choice) /\ some_match)
                     \o SelectSeq(names, LAMBDA name : InList(name, choices)
                                                       /\ pattern_matcher(AsPattern(item), major, name))
            ELSE IF IsItemGroup(item.str)
                 THEN IF some_match THEN <<item.str>> ELSE <<>>
                 ELSE <<item.str>>
    IN  RemoveUsed(valid_items, used)

(***************************************************************************)
(* get_item and what it calls.  An outcome is a record of                  *)
(*   item_pools, base (self.base_pool), major (self.major_group),          *)
(*   plando and plando_keys (self.item_pool and its key order),            *)
(*   items (what the call returns) and raised ("" or the exception).       *)
(***************************************************************************)
NoWorld == -1       \* Item.world of an item made without a world (None)

RECURSIVE RemoveLoopWorld(_, _, _, _, _, _)
\* The loop of pool_remove_item with a world_id over several pools; the
\* pools whose position is in ignore are empty lists to it.
RemoveLoopWorld(gs, item_name, count, world_id, use_base_pool, ignore) ==
    IF count <= 0 THEN {gs}
    ELSE LET candidates ==
                {<<i, gs.item_pools[i][j]>> :
                    <<i, j>> \in {<<a, b>> \in (DOMAIN gs.item_pools \ ignore)
                                               \X (1..Len(Flatten(gs.item_pools))) :
                                    /\ b \in DOMAIN gs.item_pools[a]
                                    /\ gs.item_pools[a][b].world = world_id
                                    /\ StrPatternMatch(item_name, gs.major, gs.item_pools[a][b].name)
                                    /\ InList(gs.item_pools[a][b].name, gs.base) # ~use_base_pool}}
         IN  IF candidates = {}
             THEN IF ~use_base_pool
                  THEN {[gs EXCEPT !.raised =
                            IF is_item(item_name)
                            THEN "KeyError: No remaining items matching"
                            ELSE "KeyError: No items matching"]}
                  ELSE RemoveLoopWorld(gs, item_name, count, world_id, FALSE, ignore)
             ELSE UNION {RemoveLoopWorld(
                            [gs EXCEPT !.item_pools[c[1]] = ListRemove(@, c[2]),
                                       !.base = IF use_base_pool
                                                THEN ListRemove(@, c[2].name) ELSE @,
                                       !.items = Append(@, c[2])],
                            item_name, count - 1, world_id, use_base_pool, ignore) :
                         c \in candidates}

\* WorldDistribution.pool_remove_item(pools, item_name, count, world_id)
pool_remove_item_world(gs, item_name, count, world_id, ignore, st) ==
    IF ~StrPatternCompiles(item_name)
    THEN {[gs EXCEPT !.raised = "KeyError", !.items = <<>>]}
    ELSE RemoveLoopWorld([gs EXCEPT !.major = MajorGroupAfter(item_name, @, gs.base, st),
                                    !.items = <<>>],
                         item_name, count, world_id, TRUE, ignore)

\* The record of a removed item counts one less; it is deleted at count 1.
PlandoDecrement(gs, name) ==
    IF gs.plando[name].fields.count.int > 1
    THEN [gs EXCEPT !.plando[name].fields.count = PyInt(@.int - 1)]
    ELSE [gs EXCEPT !.plando = [n \in DOMAIN gs.plando \ {name} |-> gs.plando[n]],
                    !.plando_keys = WithoutKeys(@, <<name>>)]

\* The record of a placed item counts one more; it is created when missing.
PlandoIncrement(gs, name) ==
    IF name \notin DOMAIN gs.plando
    THEN [gs EXCEPT !.plando = DictMerge(@, name :> Construct("ItemPool", PyNone)),
                    !.plando_keys = Append(@, name)]
    ELSE [gs EXCEPT !.plando[name].fields.count = PyInt(@.int + 1)]

\* What pool_replace_item returns for new_item after the removal.
ReplacementItems(gs, player_id, new_item, st) ==
    IF new_item = "#Junk"
    THEN LET junk == IF st.enable_distribution_file
                     THEN get_junk_item(1, gs.base, gs.plando)
                     ELSE get_junk_item(1, <<>>, <<>>)
         IN  IF IsRaised(junk) THEN {[gs EXCEPT !.raised = junk.raised]}
             ELSE {[gs EXCEPT !.items = <<Item(name, NoWorld)>>] : name \in junk.list}
    ELSE IF ~StrPatternCompiles(new_item) THEN {[gs EXCEPT !.raised = "KeyError"]}
    ELSE LET major == MajorGroupAfter(new_item, gs.major, gs.base, st)
             names == {name \in Range(ItemTable) : StrPatternMatch(new_item, major, name)}
         IN  IF names = {} THEN {[gs EXCEPT !.major = major, !.raised = "IndexError"]}
             ELSE {[gs EXCEPT !.major = major, !.items = <<Item(name, player_id)>>] :
                        name \in names}

\* WorldDistribution.pool_replace_item
pool_replace_item(gs, ignore, item_group, player_id, new_item, st) ==
    UNION {IF o.raised # "" THEN {o}
           ELSE IF o.items[1].name \notin DOMAIN o.plando
           THEN {[o EXCEPT !.raised = "KeyError"]}
           ELSE ReplacementItems(PlandoDecrement(o, o.items[1].name), player_id, new_item, st) :
           o \in pool_remove_item_world(gs, item_group, 1, player_id, ignore, st)}

\* A KeyError (and for the junk branch an IndexError) of a substitution
\* becomes a RuntimeError; another exception passes.
AsRuntimeError(outcomes, message, unknown) ==
    {IF startswith(o.raised, "KeyError") THEN [o EXCEPT !.raised = message]
     ELSE IF unknown /\ o.raised = "IndexError"
     THEN [o EXCEPT !.raised = "RuntimeError: Unknown item"]
     ELSE o : o \in outcomes}

\* The shop branch of get_item: a 'Buy' item is removed, its record counts
\* one less, and the item of the record is made.
ShopReplace(gs, ignore, player_id, item_name, st) ==
    UNION {IF o.raised # "" THEN {o}
           ELSE LET o1 == IF o.items[1].name \in DOMAIN o.plando
                          THEN PlandoDecrement(o, o.items[1].name) ELSE o
                IN  IF is_item(item_name)
                    THEN {[o1 EXCEPT !.items = <<Item(item_name, player_id)>>]}
                    ELSE {[o1 EXCEPT !.raised = "KeyError"]} :
           o \in pool_remove_item_world(gs, "Buy *", 1, player_id, ignore, st)}

\* The except KeyError branch of get_item: the substitution for an item the
\* pools do not hold, and the bookkeeping of the item that is placed.
Substitute(gs, ignore, location, player_id, item_name, st) ==
    LET replaced ==
            IF location.type = "Shop" /\ contains(item_name, "Buy")
            THEN AsRuntimeError(ShopReplace(gs, ignore, player_id, item_name, st),
                                "RuntimeError: Too many shop buy items", FALSE)
            ELSE IF InList(item_name, item_groups["Bottle"])
            THEN AsRuntimeError(pool_replace_item(gs, ignore, "#Bottle", player_id, item_name, st),
                                "RuntimeError: Too many bottles", FALSE)
            ELSE IF InList(item_name, item_groups["AdultTrade"]) /\ ~st.adult_trade_shuffle
            THEN AsRuntimeError(pool_replace_item(gs, ignore, "#AdultTrade", player_id, item_name, st),
                                "RuntimeError: Too many adult trade items", FALSE)
            ELSE IF InList(item_name, item_groups["ChildTrade"])
                    /\ ~InList(item_name, st.shuffle_child_trade)
            THEN AsRuntimeError(pool_replace_item(gs, ignore, "#ChildTrade", player_id, item_name, st),
                                "RuntimeError: Too many child trade items", FALSE)
            ELSE IF item_name = "Ice Arrows" /\ st.blue_fire_arrows
            THEN {[gs EXCEPT !.raised = "ValueError: Ice Arrows"]}
            ELSE IF item_name = "Blue Fire Arrows" /\ ~st.blue_fire_arrows
            THEN {[gs EXCEPT !.raised = "ValueError: Blue Fire Arrows"]}
            ELSE AsRuntimeError(pool_replace_item(gs, {}, "#Junk", player_id, item_name, st),
                                "RuntimeError: Too many items", TRUE)
    IN  {IF o.raised # "" THEN o ELSE PlandoIncrement(o, o.items[1].name) : o \in replaced}

\* WorldDistribution.get_item
get_item(gs, ignore, location, player_id, item_name, st) ==
    UNION {IF o.raised = "" THEN {o}
           ELSE IF startswith(o.raised, "KeyError")
           THEN Substitute([o EXCEPT !.raised = "", !.items = <<>>], ignore, location,
                           player_id, item_name, st)
           ELSE {o} :
           o \in pool_remove_item_world(gs, item_name, 1, player_id, ignore, st)}

(***************************************************************************)
(* One iteration of fill's loop.  A fill outcome is a record of the state  *)
(* the iteration leaves: locations, location_pools, used (used_items),     *)
(* gs (the pools and bookkeeping get_item works on), song (song_as_items), *)
(* placed, gate and raised ("" or the exception).                          *)
(***************************************************************************)
\* valid_items of a record: the vanilla item of the location for "#Vanilla",
\* get_valid_items_from_record otherwise; a KeyError when the location name
\* is no key of the table or the pattern names no group.
ValidItems(location_name, item, used, major) ==
    IF item = PyStr("#Vanilla")
    THEN IF location_name \in DOMAIN location_table
         THEN PyList(<<location_table[location_name].vanilla>>)
         ELSE Raised("KeyError")
    ELSE IF ~PatternCompiles(AsPattern(item)) THEN Raised("KeyError")
    ELSE PyList(get_valid_items_from_record(world_itempool, used, item, major))

\* The limited items fill leaves out of a candidate list once the pool is used up.
IsLimitedItem(name) ==
    \/ name \in {"#ChildTrade", "#AdultTrade", "#Bottle"}
    \/ InList(name, item_groups["Bottle"])
    \/ InList(name, item_groups["AdultTrade"])
    \/ InList(name, item_groups["ChildTrade"])

\* record.item and used_items after the choice among the valid items.
ItemChoices(item, valid_items, used) ==
    IF valid_items = <<>>
    THEN IF IsList(item)
         THEN LET allowed_choices == {item.list[i].str : i \in DOMAIN item.list}
                                     \ {name \in {item.list[i].str : i \in DOMAIN item.list} :
                                            IsLimitedItem(name)}
              IN  IF allowed_choices = {}
                  THEN {[item |-> item, used |-> used, raised |-> "IndexError"]}
                  ELSE {[item |-> PyStr(name), used |-> used, raised |-> ""] :
                            name \in allowed_choices}
         ELSE {[item |-> item, used |-> used, raised |-> ""]}
    ELSE {[item |-> PyStr(name),
           used |-> IF ~startswith(name, "#") THEN Append(used, name) ELSE used,
           raised |-> ""] : name \in Range(valid_items)}

\* Whether a starting item is a song with a count (song_list has the songs).
StartsWithSong(st) ==
    \E name \in DOMAIN st.starting_items :
        InList(name, item_groups["Song"]) /\ st.starting_items[name].fields.count.int # 0

\* record.item after the junk of a song location became song junk.
JunkSongItem(name, location, st) ==
    IF name = "#Junk" /\ location.type = "Song" /\ st.shuffle_song_items = "song"
       /\ ~StartsWithSong(st)
    THEN "#JunkSong" ELSE name

\* The number of item pools fill is handed.
ItemPoolCount == 6

\* ignore_pools, as positions counted from 0.
IgnorePools(is_invert, location, st) ==
    LET songs == st.shuffle_song_items = "song"
        i1 == IF is_invert /\ location.type # "Song" /\ songs THEN {2} ELSE {}
        i2 == IF is_invert /\ location.type = "Song" /\ songs
              THEN (0..(ItemPoolCount - 1)) \ {2} ELSE i1
    IN  IF location.type = "Shop" /\ IsNone(location.price)
        THEN (0..(ItemPoolCount - 1)) \ {0}
        ELSE i2 \cup {0}

\* The message of the FillError of the reachability gate.
FillErrorMessage(location, item, player_id) ==
    "FillError: " \o location.name \o " in world " \o ToString(self_id + 1)
    \o " is not reachable without " \o item.name \o " in world "
    \o ToString(player_id + 1) \o "!"

\* The reachability gate without its raise.
ReachabilityGateNoRaise(fs, location, item, player_id, can_beat_game) ==
    [fs EXCEPT !.gate = [location |-> location.name, item |-> item.name,
                         player |-> player_id, answer |-> can_beat_game,
                         placed |-> Len(fs.placed)]]

\* The reachability gate: after an advancement item was pushed the search
\* answers; a game that cannot be beaten raises the FillError.
ReachabilityGate(fs, location, item, player_id, can_beat_game) ==
    [fs EXCEPT !.gate = [location |-> location.name, item |-> item.name,
                         player |-> player_id, answer |-> can_beat_game,
                         placed |-> Len(fs.placed)],
               !.raised = IF can_beat_game THEN ""
                          ELSE FillErrorMessage(location, item, player_id)]

\* fill from get_item's return on: song_as_items, push_item and the gate.
PushItem(fs, location, item, player_id) ==
    LET pushed == [fs EXCEPT !.song = @ \/ (location.type = "Song" /\ ItemType(item.name) # "Song"),
                              !.placed = Append(@, [location |-> location, item |-> item])]
    IN  IF ItemAdvancement(item.name)
        THEN {ReachabilityGate(pushed, location, item, player_id, answer) : answer \in BOOLEAN}
        ELSE {pushed}

\* The state an iteration of fill starts from, the location pulled.
FillState(pools) ==
    [locations |-> locations, location_pools |-> pools, used |-> used_items,
     gs |-> [item_pools |-> item_pools, base |-> base_pool, major |-> major_group,
             plando |-> item_pool, plando_keys |-> item_pool_keys, items |-> <<>>,
             raised |-> ""],
     song |-> song_as_items, placed |-> placed, gate |-> fl_gate, raised |-> ""]

\* The iteration from the choice of record.item on.
PlaceChosen(fs, key, location, choice, st) ==
    LET record == fs.locations[key].fields
        chosen == [fs EXCEPT !.locations[key].fields.item = choice.item, !.used = choice.used]
        player_id == IF IsNone(record.player) THEN self_id ELSE record.player.int - 1
    IN  IF choice.raised # "" THEN {[chosen EXCEPT !.raised = choice.raised]}
        ELSE IF InList(choice.item.str, item_groups["DungeonReward"])
        THEN {[chosen EXCEPT !.raised = "RuntimeError: Cannot place dungeon reward"]}
        ELSE LET name == JunkSongItem(choice.item.str, location, st)
                 renamed == [chosen EXCEPT !.locations[key].fields.item = PyStr(name)]
             IN  IF ~StrPatternCompiles(name) THEN {[renamed EXCEPT !.raised = "KeyError"]}
                 ELSE LET major == MajorGroupAfter(name, renamed.gs.major, renamed.gs.base, st)
                          is_invert == StrPatternMatch(name, major, "!")
                          ignore == {i + 1 : i \in IgnorePools(is_invert, location, st)}
                          got == get_item([renamed.gs EXCEPT !.major = major], ignore,
                                          location, player_id, name, st)
                      IN  UNION {IF o.raised # ""
                                 THEN {[renamed EXCEPT !.gs = o, !.raised = o.raised]}
                                 ELSE PushItem([renamed EXCEPT !.gs = o], location,
                                               o.items[1], player_id) :
                                 o \in got}

\* The iteration for a location the pools held.
PlaceOutcomes(location_name, key, pulled, st) ==
    LET fs == FillState(pulled.pools)
        item == locations[key].fields.item
        major == IF item # PyStr("#Vanilla") /\ PatternCompiles(AsPattern(item))
                 THEN PatternMajorAfter(AsPattern(item), major_group, base_pool, st)
                 ELSE major_group
        valid_items == ValidItems(location_name, item, used_items, major)
    IN  IF IsRaised(valid_items) THEN {[fs EXCEPT !.raised = valid_items.raised]}
        ELSE UNION {PlaceChosen([fs EXCEPT !.gs.major = major], key, pulled.element, choice, st) :
                        choice \in ItemChoices(item, valid_items.list, used_items)}

\* An outcome becomes the state; an exception ends fill.
FillCommit(fs) ==
    /\ locations' = fs.locations
    /\ location_pools' = fs.location_pools
    /\ used_items' = fs.used
    /\ item_pools' = fs.gs.item_pools
    /\ base_pool' = fs.gs.base
    /\ major_group' = fs.gs.major
    /\ item_pool' = fs.gs.plando
    /\ item_pool_keys' = fs.gs.plando_keys
    /\ song_as_items' = fs.song
    /\ placed' = fs.placed
    /\ fl_gate' = fs.gate
    /\ IF fs.raised # ""
       THEN fl_pc' = "error" /\ fl_error' = fs.raised /\ UNCHANGED fl_index
       ELSE fl_index' = fl_index + 1 /\ UNCHANGED <<fl_pc, fl_error>>

\* What fill does with a location the pools do not hold: an unknown or an
\* already filled location raises, another one is skipped.
NotPulled(location_name, st) ==
    LET location == LocationFactory(location_name)
    IN  IF IsRaised(location)
        THEN "RuntimeError: Unknown location in world " \o ToString(self_id + 1)
        ELSE IF location.type = "Boss" THEN ""
        ELSE IF InList(location.name, st.disabled_locations) THEN ""
        ELSE IF \E i \in DOMAIN fillable_locations :
                    location_matcher(fillable_locations[i], location_name)
        THEN "RuntimeError: Location already filled in world " \o ToString(self_id + 1)
        ELSE ""

\* pattern_dict_items(locations) for keys in the given order: the pairs of a
\* location name and the key whose record is placed there.
PatternDictItems(keys, major) ==
    LET Names(key) == LocationIterator(key, major)
        F[i \in 0..Len(keys)] ==
            IF i = 0 THEN <<>>
            ELSE F[i - 1] \o (IF is_pattern(keys[i])
                              THEN [j \in DOMAIN Names(keys[i]) |-> <<Names(keys[i])[j], keys[i]>>]
                              ELSE <<<<keys[i], keys[i]>>>>)
    IN  F[Len(keys)]

\* random.sample(sorted(keys), len(keys)): every order of the keys.
RandomSample(keys) ==
    {order \in [1..Cardinality(keys) -> keys] :
        \A i, j \in 1..Cardinality(keys) : i # j => order[i] # order[j]}

(***************************************************************************)
(* The inputs of fill: the location records of the world, the pools and    *)
(* the settings.                                                           *)
(***************************************************************************)
Location(name, world) ==
    [name |-> name, world |-> world, type |-> location_table[name].type, price |-> PyNone]

LocationPools ==
    <<<<Location("KF Shop Item 1", 0)>>,
      <<Location("Song from Impa", 0)>>,
      <<Location(Chest, 0), Location("KF Kokiri Sword Chest", 0), Location(Chest, 1)>>>>

\* The item pools: shop, dungeon, songs, progression, priority, the rest.
FullItemPools ==
    <<<<Item("Buy Deku Nut (5)", 0)>>,
      <<>>,
      <<Item("Zeldas Lullaby", 0)>>,
      <<Item("Bow", 0), Item("Kokiri Sword", 0), Item("Bottle", 0), Item("Bow", 1),
        Item("Weird Egg", 0)>>,
      <<>>,
      <<Item("Recovery Heart", 0), Item("Rupees (5)", 0), Item("Rupees (5)", 1)>>>>
\* Item pools of a world whose dungeon rewards are shuffled.
RewardItemPools ==
    <<<<>>,
      <<Item("Kokiri Emerald", 0)>>,
      <<Item("Zeldas Lullaby", 0)>>,
      <<Item("Bow", 0), Item("Kokiri Sword", 0)>>,
      <<>>,
      <<Item("Rupees (5)", 0)>>>>
\* Item pools in which the other world has a shop item this world has not.
ShopItemPools ==
    <<<<Item("Buy Bombs (5)", 1), Item("Buy Deku Nut (5)", 0)>>,
      <<>>,
      <<>>,
      <<Item("Bow", 0), Item("Bottle", 0)>>,
      <<>>,
      <<Item("Rupees (5)", 0), Item("Rupees (5)", 1)>>>>
ScarceItemPools ==
    <<<<>>,
      <<>>,
      <<Item("Zeldas Lullaby", 0)>>,
      <<Item("Bow", 0), Item("Bow", 1)>>,
      <<>>,
      <<Item("Rupees (5)", 0)>>>>

\* WorldDistribution.set_complete_itempool: a record for every name of the
\* pool, counting its items (the dungeon items and the drop, event and
\* reward items are left out).
set_complete_itempool(the_pool) ==
    LET names == SelectSeq(ItemNamesOf(the_pool),
                           LAMBDA name : ItemType(name) \notin {"Drop", "Event", "DungeonReward"})
        F[i \in 0..Len(names)] ==
            IF i = 0 THEN [keys |-> <<>>, records |-> <<>>]
            ELSE IF names[i] \in DOMAIN F[i - 1].records
                 THEN [F[i - 1] EXCEPT !.records[names[i]].fields.count = PyInt(@.int + 1)]
                 ELSE [keys |-> Append(F[i - 1].keys, names[i]),
                       records |-> DictMerge(F[i - 1].records,
                                             names[i] :> Construct("ItemPool", PyNone))]
    IN  F[Len(names)]

\* The items of a world in the item pools.
WorldItems(pools, world) == SelectSeq(Flatten(pools), LAMBDA item : item.world = world)

DefaultFillSettings ==
    [shuffle_song_items |-> "song", triforce_hunt |-> FALSE, bridge |-> "open",
     blue_fire_arrows |-> FALSE, shuffle_child_trade |-> <<"Weird Egg">>,
     adult_trade_shuffle |-> FALSE, starting_items |-> <<>>,
     disabled_locations |-> <<>>, enable_distribution_file |-> TRUE]

FillSettings ==
    {DefaultFillSettings,
     [DefaultFillSettings EXCEPT !.shuffle_song_items = "any"],
     [DefaultFillSettings EXCEPT !.starting_items = "Zeldas Lullaby" :> Starter(1)],
     [DefaultFillSettings EXCEPT !.disabled_locations = <<"KF Kokiri Sword Chest">>,
                                 !.enable_distribution_file = FALSE,
                                 !.shuffle_child_trade = <<>>],
     [DefaultFillSettings EXCEPT !.blue_fire_arrows = TRUE, !.adult_trade_shuffle = TRUE]}

\* The documents of the locations section (a value is what LocationRecord
\* is constructed from).
ItemAt(item, player) == PyDict([item |-> PyStr(item), player |-> PyInt(player)])
Candidates(names) == PyList([i \in DOMAIN names |-> PyStr(names[i])])

LocationDocuments ==
    {<<>>,
     Chest :> PyStr("Bow"),
     (Chest :> PyStr("Bow")) @@ ("KF Kokiri Sword Chest" :> PyStr("Kokiri Sword")),
     (Chest :> PyStr("Bow")) @@ ("KF Kokiri Sword Chest" :> PyStr("Bow")),
     (Chest :> PyStr("Bottle with Milk")) @@ ("KF Kokiri Sword Chest" :> PyStr("Chicken")),
     (Chest :> Candidates(<<"Bow", "#Bottle">>))
        @@ ("KF Kokiri Sword Chest" :> Candidates(<<"Bow", "#Bottle">>)),
     (Chest :> Candidates(<<"Bottle", "Weird Egg">>)) @@ ("KF*" :> PyList(<<PyStr("Bottle")>>)),
     ("Song from Impa" :> PyStr("#Junk")) @@ (Chest :> PyStr("#Song")),
     ("Song from Impa" :> PyStr("!Bow")) @@ (Chest :> PyStr("!#Junk")),
     ("KF Shop Item 1" :> PyStr("Buy Deku Nut (5)")) @@ (Chest :> PyStr("#MajorItem")),
     ("KF Shop Item 1" :> PyStr("Bow")) @@ (Chest :> PyStr("Pocket Egg")),
     ("KF Shop Item 1" :> ItemAt("Buy Deku Nut (5)", 2)) @@ (Chest :> PyStr("Bottle with Milk")),
     ("KF Shop Item 1" :> PyStr("Buy Bombs (5)")) @@ (Chest :> ItemAt("Recovery Heart", 2)),
     ("KF Shop Item 1" :> PyStr("#Junk")) @@ (Chest :> PyStr("Rupees (5)")),
     (Chest :> PyStr("Kokiri Emerald")) @@ ("Queen Gohma" :> PyStr("Kokiri Emerald")),
     (Chest :> PyStr("#DungeonReward")) @@ ("KF Kokiri Sword Chest" :> PyStr("Kokiri*")),
     (Chest :> Candidates(<<"Kokiri Emerald", "Bow">>))
        @@ ("KF Kokiri Sword Chest" :> Candidates(<<"#DungeonReward">>)),
     (Chest :> ItemAt("Bow", 2)) @@ ("KF Kokiri Sword Chest" :> ItemAt("Rupees (5)", 2)),
     (Chest :> PyStr("Rupees (5)")) @@ ("kf midos top left chest" :> PyStr("Recovery Heart")),
     (Chest :> PyStr("#Vanilla")) @@ ("kf kokiri sword chest" :> PyStr("#Vanilla")),
     (Chest :> PyStr("Nothing")) @@ ("Nowhere" :> PyStr("Bow")),
     (Chest :> PyStr("Ice Arrows")) @@ ("KF Kokiri Sword Chest" :> PyStr("Blue Fire Arrows")),
     (Chest :> PyStr("#Nothing")) @@ ("KF Kokiri Sword Chest" :> PyDict(<<>>))}

FillInit ==
    /\ \E document \in LocationDocuments, st \in FillSettings,
          pools \in {FullItemPools, ScarceItemPools, RewardItemPools, ShopItemPools},
          in_base \in BOOLEAN :
          /\ st = DefaultFillSettings \/ pools = FullItemPools
          /\ locations = BuildSection("locations", document).dict
          /\ settings = st
          /\ item_pools = pools
          /\ world_itempool = WorldItems(pools, self_id)
          /\ base_pool = IF in_base THEN ItemNamesOf(WorldItems(pools, self_id))
                         ELSE WithoutKeys(ItemNamesOf(WorldItems(pools, self_id)), <<"Bow">>)
          /\ item_pool = set_complete_itempool(WorldItems(pools, self_id)).records
          /\ item_pool_keys = set_complete_itempool(WorldItems(pools, self_id)).keys
    /\ location_pools = LocationPools
    /\ major_group = <<>>
    /\ song_as_items = FALSE
    /\ fl_pc = "start" /\ fl_order = <<>> /\ fl_index = 0 /\ used_items = <<>>
    /\ placed = <<>> /\ fl_error = "" /\ fl_gate = Unset /\ fillable_locations = <<>>
    /\ pool = Unset /\ pool_size = Unset /\ bottles = Unset /\ remove_trade = Unset
    /\ ap_pc = Unset /\ ap_index = Unset /\ ap_todo = Unset /\ ap_error = Unset
    /\ ap_entry = Unset /\ effective_starting_items = Unset /\ ap_applied = Unset
    /\ PmIdle /\ RecIdle /\ DistIdle /\ EntIdle

\* What fill leaves alone.
fillFrame ==
    <<settings, world_itempool, pool, pool_size, bottles, remove_trade, ap_pc, ap_index,
      ap_todo, ap_error, ap_entry, effective_starting_items, ap_applied, pmVars, recVars, distVars, entVars>>

\* fill up to its loop: the locations of the pools are noted and the records
\* are put in a random order.
FillBegin ==
    /\ fl_pc = "start"
    /\ fillable_locations' = Flatten(location_pools)
    /\ \E order \in RandomSample(DOMAIN locations) :
            fl_order' = PatternDictItems(order, major_group)
    /\ used_items' = <<>>
    /\ fl_index' = 1
    /\ fl_pc' = "loop"
    /\ UNCHANGED <<locations, location_pools, item_pools, placed, fl_error, fl_gate,
                   base_pool, major_group, item_pool, item_pool_keys, song_as_items,
                   fillFrame>>

\* One iteration of fill's loop.  The value of a pattern key is the list of
\* records update built for it, which has no item attribute.
FillRecord ==
    /\ fl_pc = "loop" /\ fl_index <= Len(fl_order)
    /\ LET location_name == fl_order[fl_index][1]
           key == fl_order[fl_index][2]
           pulled == pull_first_element(location_pools, location_name)
       IN  IF IsList(locations[key])
           THEN FillCommit([FillState(location_pools) EXCEPT !.raised = "AttributeError"])
           ELSE IF IsNone(locations[key].fields.item)
           THEN FillCommit(FillState(location_pools))
           ELSE IF IsNone(pulled.element)
           THEN FillCommit([FillState(location_pools) EXCEPT
                                !.raised = NotPulled(location_name, settings)])
           ELSE \E fs \in PlaceOutcomes(location_name, key, pulled, settings) : FillCommit(fs)
    /\ UNCHANGED <<fl_order, fillable_locations, fillFrame>>

\* fill returns.
FillDone ==
    /\ fl_pc = "loop" /\ fl_index > Len(fl_order)
    /\ fl_pc' = "done"
    /\ UNCHANGED <<locations, fl_order, fl_index, location_pools, item_pools, used_items,
                   placed, fl_error, fl_gate, fillable_locations, base_pool, major_group,
                   item_pool, item_pool_keys, song_as_items, fillFrame>>

FillNext ==
    \/ FillBegin
    \/ FillRecord
    \/ FillDone

SpecFill == FillInit /\ [][FillNext]_vars

\* C3: when the reachability check answered that the game cannot be beaten
\* after an advancement item was placed, fill has raised the FillError that
\* names the location, the item and the player of that placement, and that
\* placement is the last one made and its record the last one processed.
C3_ReachabilityGate ==
    (fl_gate # Unset /\ ~fl_gate.answer) =>
        /\ fl_pc = "error"
        /\ fl_error = "FillError: " \o fl_gate.location \o " in world 1 is not reachable without "
                      \o fl_gate.item \o " in world " \o ToString(fl_gate.player + 1) \o "!"
        /\ Len(placed) = fl_gate.placed
        /\ placed[Len(placed)].item.name = fl_gate.item
        /\ placed[Len(placed)].location.name = fl_gate.location
        /\ fl_order[fl_index][1] = fl_gate.location
C3_Witness ==
    /\ fl_gate # Unset /\ ~fl_gate.answer
    /\ fl_index < Len(fl_order)
    /\ fl_gate.player # self_id

\* C27: a dungeon reward that fill pushed to a location that is no boss
\* location comes with an error raised by fill.
C27_NoRewardOffBoss ==
    \A i \in DOMAIN placed :
        (/\ placed[i].location.type # "Boss"
         /\ ItemType(placed[i].item.name) = "DungeonReward") => fl_pc = "error"

\* The count item_pool tracks for a name (0 when it has no record).
TrackedCount(records, name) ==
    IF name \in DOMAIN records THEN records[name].fields.count.int ELSE 0

\* C28: when an iteration of fill places an item that get_item made in
\* place of another item it removed from the pools, the record of the
\* removed item's name counts one less (it is deleted at 1), the record of
\* the placed item's name counts one more (it is created at 1), every other
\* record is as it was, and no record counts less than 1.
C28_SubstitutionBookkeeping ==
    [][(fl_pc = "loop" /\ Len(placed') = Len(placed) + 1) =>
        LET item == placed'[Len(placed')].item
            before == Flatten(item_pools)
            after == Flatten(item_pools')
        IN  \A removed_item \in Range(before) :
                (/\ ListCount(after, removed_item) < ListCount(before, removed_item)
                 /\ removed_item # item) =>
                    /\ TrackedCount(item_pool, removed_item.name) >= 1
                    /\ \A n \in DOMAIN item_pool \cup DOMAIN item_pool' :
                          TrackedCount(item_pool', n) =
                              TrackedCount(item_pool, n)
                              + (IF n = item.name THEN 1 ELSE 0)
                              - (IF n = removed_item.name THEN 1 ELSE 0)
                    /\ \A n \in DOMAIN item_pool' : TrackedCount(item_pool', n) >= 1]_vars

\* The record fill's loop stands at names a literal item that the owning
\* player has in a pool that is not ignored for the location, and the pools
\* hold the location.
LiteralItemAvailable ==
    /\ fl_pc = "loop" /\ fl_index <= Len(fl_order)
    /\ ~IsList(locations[fl_order[fl_index][2]])
    /\ LET record == locations[fl_order[fl_index][2]].fields
           pulled == pull_first_element(location_pools, fl_order[fl_index][1])
           player_id == IF IsNone(record.player) THEN self_id ELSE record.player.int - 1
       IN  /\ IsStr(record.item) /\ ~is_pattern(record.item.str)
           /\ ~IsNone(pulled.element)
           /\ \E i \in DOMAIN item_pools :
                /\ (i - 1) \notin IgnorePools(FALSE, pulled.element, settings)
                /\ \E j \in DOMAIN item_pools[i] :
                        item_pools[i][j] = Item(record.item.str, player_id)

\* C14: when a location record names a literal item that the owning player
\* has in a pool not ignored for the location, the iteration of fill pushes an
\* item of that name and player to the location, the item pools hold one item
\* less in total and one item less of that name and player, and the location
\* has left the location pools.
C14_LiteralPlacement ==
    [][LiteralItemAvailable =>
        LET record == locations[fl_order[fl_index][2]].fields
            pulled == pull_first_element(location_pools, fl_order[fl_index][1])
            player_id == IF IsNone(record.player) THEN self_id ELSE record.player.int - 1
            item == Item(record.item.str, player_id)
        IN  /\ placed' = Append(placed, [location |-> pulled.element, item |-> item])
            /\ Len(Flatten(item_pools')) = Len(Flatten(item_pools)) - 1
            /\ ListCount(Flatten(item_pools'), item) = ListCount(Flatten(item_pools), item) - 1
            /\ location_pools' = pulled.pools
            /\ Len(Flatten(location_pools')) = Len(Flatten(location_pools)) - 1]_vars

\* C14, amended: the same, for a literal item that is no dungeon reward (a
\* record that names a dungeon reward makes fill raise before anything is
\* pulled from the item pools).
C14_LiteralNonRewardPlacement ==
    [][(/\ LiteralItemAvailable
        /\ ~InList(locations[fl_order[fl_index][2]].fields.item.str,
                   item_groups["DungeonReward"])) =>
        LET record == locations[fl_order[fl_index][2]].fields
            pulled == pull_first_element(location_pools, fl_order[fl_index][1])
            player_id == IF IsNone(record.player) THEN self_id ELSE record.player.int - 1
            item == Item(record.item.str, player_id)
        IN  /\ placed' = Append(placed, [location |-> pulled.element, item |-> item])
            /\ Len(Flatten(item_pools')) = Len(Flatten(item_pools)) - 1
            /\ ListCount(Flatten(item_pools'), item) = ListCount(Flatten(item_pools), item) - 1
            /\ location_pools' = pulled.pools
            /\ Len(Flatten(location_pools')) = Len(Flatten(location_pools)) - 1]_vars

C14_Witness ==
    /\ fl_pc = "loop"
    /\ Len(placed) = 2
    /\ placed[2].item = Item("Kokiri Sword", self_id)
    /\ placed[2].location.name = "KF Kokiri Sword Chest"
    /\ Len(Flatten(item_pools)) = Len(Flatten(FullItemPools)) - 2
    /\ Len(Flatten(location_pools)) = Len(Flatten(LocationPools)) - 2

=============================================================================
